---------------------------- MODULE Spec2Model ----------------------------
(***************************************************************************)
(* Model of the response/error normalisation layer of the product API:     *)
(* the builders of app/core/builders.py, the exception taxonomy of         *)
(* app/core/exceptions.py, the two custom middlewares of app/middleware    *)
(* and their composition in main.py.                                       *)
(***************************************************************************)
EXTENDS Integers, Sequences, FiniteSets, TLC

(***************************************************************************)
(* Bounds of the model.                                                    *)
(***************************************************************************)
MaxTotal == 6
MaxSkip == 6
MaxLimit == 4
MaxRequests == 2

(***************************************************************************)
(* Python values.  Every value carries its type, so that None, "", 0 and   *)
(* False stay distinct values that are all falsy.                          *)
(***************************************************************************)
PyNone == [t |-> "None"]
PyStr(s) == [t |-> "str", v |-> s]
PyInt(n) == [t |-> "int", v |-> n]
PyBool(b) == [t |-> "bool", v |-> b]
PyList(l) == [t |-> "list", v |-> l]
PyDict(d) == [t |-> "dict", v |-> d]

\* bool(x) of a Python value
Truthy(x) ==
    CASE x.t = "None" -> FALSE
      [] x.t = "str" -> x.v /= ""
      [] x.t = "int" -> x.v /= 0
      [] x.t = "bool" -> x.v
      [] x.t = "list" -> Len(x.v) > 0
      [] x.t = "dict" -> DOMAIN x.v /= {}

\* a Python dict with string keys is a function on its set of keys
EmptyDict == [k \in {} |-> PyNone]
\* dict.update(e): the keys of e are added, and overwrite those of d
dict_update(d, e) ==
    [k \in (DOMAIN d) \cup (DOMAIN e) |-> IF k \in DOMAIN e THEN e[k] ELSE d[k]]

\* the outcome of a call: a returned value or a raised exception
Return(v) == [kind |-> "return", value |-> v]
Raise(e) == [kind |-> "raise", exc |-> e]

\* str(x) of a Python value, as an f-string formats it
str(x) ==
    CASE x.t = "None" -> "None"
      [] x.t = "str" -> x.v
      [] x.t = "int" -> ToString(x.v)
      [] x.t = "bool" -> IF x.v THEN "True" ELSE "False"

(***************************************************************************)
(* Responses.  A JSONResponse renders its content as one JSON document;    *)
(* the body is that document.  Only the headers the middlewares set are    *)
(* kept.                                                                   *)
(***************************************************************************)
render(content) == [json |-> content]

JSONResponse(content, status_code) ==
    [status_code |-> status_code, body |-> render(content), headers |-> EmptyDict]

(***************************************************************************)
(* ResponseBuilder                                                         *)
(***************************************************************************)
\* the same with data tested for truth, as error_code and metadata are
_build_response_truthy_data(success, message, data, error_code, metadata) ==
    LET response == ("success" :> PyBool(success)) @@ ("message" :> message)
        r1 == IF Truthy(data) THEN dict_update(response, "data" :> data)
              ELSE response
        r2 == IF Truthy(error_code) THEN dict_update(r1, "error_code" :> error_code)
              ELSE r1
        r3 == IF Truthy(metadata) THEN dict_update(r2, "metadata" :> metadata)
              ELSE r2
    IN  r3

_build_response(success, message, data, error_code, metadata) ==
    LET response == ("success" :> PyBool(success)) @@ ("message" :> message)
        r1 == IF data /= PyNone THEN dict_update(response, "data" :> data)
              ELSE response
        r2 == IF Truthy(error_code) THEN dict_update(r1, "error_code" :> error_code)
              ELSE r1
        r3 == IF Truthy(metadata) THEN dict_update(r2, "metadata" :> metadata)
              ELSE r2
    IN  r3

\* success answering 200 whatever status_code is passed
ResponseBuilder_success_ok(data, message, status_code, metadata) ==
    JSONResponse(PyDict(_build_response(TRUE, message, data, PyNone, metadata)), 200)

ResponseBuilder_success(data, message, status_code, metadata) ==
    JSONResponse(PyDict(_build_response(TRUE, message, data, PyNone, metadata)),
                 status_code)

ResponseBuilder_created(data, message) ==
    ResponseBuilder_success(data, message, 201, PyNone)

ResponseBuilder_no_content ==
    JSONResponse(PyNone, 204)

\* error keeping its base fields when an extra field has the same key
ResponseBuilder_error_guarded(message, error_code, status_code, extra_data) ==
    LET response_data == _build_response(FALSE, message, PyNone, error_code, PyNone)
    IN  JSONResponse(PyDict(dict_update(extra_data, response_data)), status_code)

ResponseBuilder_error(message, error_code, status_code, extra_data) ==
    LET response_data == _build_response(FALSE, message, PyNone, error_code, PyNone)
        merged == IF DOMAIN extra_data /= {}
                  THEN dict_update(response_data, extra_data)
                  ELSE response_data
    IN  JSONResponse(PyDict(merged), status_code)

(***************************************************************************)
(* ExceptionBuilder                                                        *)
(***************************************************************************)
\* the attributes the class body of ExceptionBuilder defines
ExceptionBuilder_attrs ==
    {"NOT_FOUND", "VALIDATION_ERROR", "BAD_REQUEST", "UNAUTHORIZED", "FORBIDDEN",
     "CONFLICT", "INTERNAL_ERROR", "ROUTE_NOT_FOUND",
     "not_found", "validation_error", "bad_request", "conflict",
     "route_not_found", "internal_error", "unauthorized", "forbidden"}

ExceptionBuilder_not_found(resource, resource_id, custom_message) ==
    LET message ==
            IF Truthy(custom_message) THEN custom_message
            ELSE IF Truthy(resource_id)
                 THEN PyStr(str(resource) \o " with id '" \o str(resource_id)
                            \o "' not found")
                 ELSE PyStr(str(resource) \o " not found")
    IN  ResponseBuilder_error(message, PyStr("NOT_FOUND"), 404,
                              ("resource" :> resource) @@ ("resource_id" :> resource_id))

ExceptionBuilder_validation_error(errors, message) ==
    ResponseBuilder_error(message, PyStr("VALIDATION_ERROR"), 422, "errors" :> errors)

\* route_not_found with path and method exchanged
ExceptionBuilder_route_not_found_swapped(path, method) ==
    ResponseBuilder_error(
        PyStr("Route '" \o str(path) \o " " \o str(method) \o "' not found"),
        PyStr("ROUTE_NOT_FOUND"), 404,
        ("path" :> method) @@ ("method" :> path))

ExceptionBuilder_route_not_found(path, method) ==
    ResponseBuilder_error(
        PyStr("Route '" \o str(method) \o " " \o str(path) \o "' not found"),
        PyStr("ROUTE_NOT_FOUND"), 404,
        ("path" :> path) @@ ("method" :> method))

ExceptionBuilder_internal_error(message, error_code) ==
    ResponseBuilder_error(
        message,
        IF Truthy(error_code) THEN error_code ELSE PyStr("INTERNAL_ERROR"),
        500, EmptyDict)

ExceptionBuilder_bad_request(message, error_code, extra_data) ==
    ResponseBuilder_error(
        message,
        IF Truthy(error_code) THEN error_code ELSE PyStr("BAD_REQUEST"),
        400, extra_data)

ExceptionBuilder_conflict(message, error_code, extra_data) ==
    ResponseBuilder_error(
        message,
        IF Truthy(error_code) THEN error_code ELSE PyStr("CONFLICT"),
        409, extra_data)

\* unauthorized with the fixed error code, whatever the caller passes
ExceptionBuilder_unauthorized_fixed(message, error_code) ==
    ResponseBuilder_error(message, PyStr("UNAUTHORIZED"), 401, EmptyDict)

ExceptionBuilder_unauthorized(message, error_code) ==
    ResponseBuilder_error(
        message,
        IF Truthy(error_code) THEN error_code ELSE PyStr("UNAUTHORIZED"),
        401, EmptyDict)

ExceptionBuilder_forbidden(message, error_code) ==
    ResponseBuilder_error(
        message,
        IF Truthy(error_code) THEN error_code ELSE PyStr("FORBIDDEN"),
        403, EmptyDict)

(***************************************************************************)
(* Exceptions                                                              *)
(***************************************************************************)
HTTPException(status_code, detail) ==
    [cls |-> "HTTPException", status_code |-> status_code, detail |-> detail]

BaseAPIException(cls, status_code, detail, error_code, kwargs) ==
    [cls |-> cls, status_code |-> status_code, detail |-> detail,
     error_code |-> error_code, extra_data |-> kwargs]

NotFoundException(cls, detail, error_code, kwargs) ==
    BaseAPIException(cls, 404, detail, error_code, kwargs)

BadRequestException(cls, detail, error_code, kwargs) ==
    BaseAPIException(cls, 400, detail, error_code, kwargs)

ProductNotFoundException(product_id) ==
    NotFoundException("ProductNotFoundException",
                      PyStr("Product with id " \o str(product_id) \o " not found"),
                      PyStr("PRODUCT_NOT_FOUND"),
                      "product_id" :> product_id)

ProductInvalidDataException(detail) ==
    BadRequestException("ProductInvalidDataException", detail,
                        PyStr("PRODUCT_INVALID_DATA"), EmptyDict)

RequestValidationError(errors) ==
    [cls |-> "RequestValidationError", errors |-> errors]

\* any other exception, e.g. RuntimeError(text)
Exception(text) == [cls |-> "Exception", text |-> text]

AttributeError(text) == [cls |-> "AttributeError", text |-> text]

\* the classes an exception class derives from, itself included
Bases(cls) ==
    CASE cls = "ProductNotFoundException" ->
            {"ProductNotFoundException", "NotFoundException", "BaseAPIException",
             "HTTPException", "StarletteHTTPException", "Exception"}
      [] cls = "ProductInvalidDataException" ->
            {"ProductInvalidDataException", "BadRequestException", "BaseAPIException",
             "HTTPException", "StarletteHTTPException", "Exception"}
      [] cls = "HTTPException" ->
            {"HTTPException", "StarletteHTTPException", "Exception"}
      [] cls = "RequestValidationError" ->
            {"RequestValidationError", "Exception"}
      [] cls = "AttributeError" -> {"AttributeError", "Exception"}
      [] cls = "Exception" -> {"Exception"}

isinstance(exc, cls) == cls \in Bases(exc.cls)

\* str(exc)
exc_str(exc) ==
    IF isinstance(exc, "StarletteHTTPException")
    THEN ToString(exc.status_code) \o ": " \o str(exc.detail)
    ELSE IF exc.cls = "RequestValidationError" THEN "validation errors"
    ELSE exc.text

(***************************************************************************)
(* The application: routes, middleware stack, requests                     *)
(***************************************************************************)
Reqs == 1..MaxRequests

\* Starlette's add_middleware inserts the class at the front of
\* user_middleware, and the stack is built so that the first entry is the
\* outermost layer: the class added last wraps the ones added before it.
add_middleware(user_middleware, cls) == <<cls>> \o user_middleware

\* main.py adds CORSMiddleware, RequestLoggingMiddleware, ErrorHandlerMiddleware
user_middleware ==
    add_middleware(
        add_middleware(
            add_middleware(<<>>, "CORSMiddleware"),
            "RequestLoggingMiddleware"),
        "ErrorHandlerMiddleware")

\* the requests of the model carry no Origin header: CORSMiddleware hands them
\* to the application and hands the outcome back untouched, so it is not a
\* step of its own
IsDispatchLayer(cls) == cls /= "CORSMiddleware"
dispatch_stack == SelectSeq(user_middleware, IsDispatchLayer)

NumLayers == Len(dispatch_stack)

\* products.py declares prefix /api/v1/products and main.py includes the
\* router under /api/v1
ProductsPrefix == "/api/v1" \o "/api/v1/products"

\* ids of the demo products that the requests of the model ask for
DemoProductIds == {1}

\* the requests of the model
Requests ==
    {<<"GET", "/nonexistent">>, <<"POST", "/nonexistent">>,
     <<"GET", ProductsPrefix \o "/1">>, <<"GET", ProductsPrefix \o "/99">>,
     <<"GET", "/">>, <<"GET", "/health">>}

\* path parameter of GET {prefix}/{product_id}
product_id_of(path) ==
    IF path = ProductsPrefix \o "/1" THEN 1 ELSE 99

\* the route a request matches, or "None"
route_of(method, path) ==
    IF method = "GET" /\ path \in {ProductsPrefix \o "/1", ProductsPrefix \o "/99"}
    THEN "get_product"
    ELSE IF method = "GET" /\ path = "/" THEN "root"
    ELSE IF method = "GET" /\ path = "/health" THEN "health_check"
    ELSE "None"

NoRequest == [method |-> PyNone, path |-> PyNone]
NoOutcome == [kind |-> "none"]
NoDispatch == [called |-> FALSE]

VARIABLES
    pg_args,     \* arguments of the last _calculate_pagination_info call
    pg_info,     \* its outcome
    pc,          \* per request: "idle", "inbound", "outbound" or "done"
    depth,       \* per request: index in dispatch_stack of the layer that holds it
    request,     \* per request: the Request object (method, path)
    request_id,  \* per request: request_id of RequestLoggingMiddleware.dispatch
    outcome,     \* per request: the response or exception travelling outwards
    log,         \* per request: the log lines its task has written, in order
    uuid_next,   \* one more than the number of uuid4 calls made
    routed,      \* per request: what the routing layer produced
    eh,          \* per request: what ErrorHandlerMiddleware.dispatch received and did
    history,     \* per request: the layers entered and left, in order
    rl,          \* per request: what RequestLoggingMiddleware.dispatch received and did
    call,        \* the last call of a builder: the operation and its arguments
    result,      \* the response that call returned
    users,       \* the users table: id -> row
    next_user_id,\* the next value of the users.id sequence
    user_op,     \* the last request to an auth or users endpoint and its outcome
    _db,         \* ProductService._db: id -> stored dict
    _next_id,    \* ProductService._next_id
    product_op   \* the last call of a ProductService method and what it returned

pgvars == <<pg_args, pg_info>>
appvars == <<pc, depth, request, request_id, outcome, log, uuid_next, routed, eh,
             history, rl>>
callvars == <<call, result>>
uservars == <<users, next_user_id, user_op>>
productvars == <<_db, _next_id, product_op>>
vars == <<pg_args, pg_info, pc, depth, request, request_id, outcome, log,
          uuid_next, routed, eh, history, rl, call, result,
          users, next_user_id, user_op, _db, _next_id, product_op>>

(***************************************************************************)
(* PaginationBuilder                                                       *)
(***************************************************************************)
\* a // b on Python ints: ZeroDivisionError when b is 0
FloorDiv(a, b) ==
    IF b = 0 THEN Raise("ZeroDivisionError") ELSE Return(a \div b)

\* r + n, where r is the outcome of a sub-expression
Plus(r, n) ==
    IF r.kind = "raise" THEN r ELSE Return(r.value + n)

\* the same computation dividing without testing limit first
_calculate_pagination_info_unguarded(total, skip, limit) ==
    LET page == Plus(FloorDiv(skip, limit), 1)
        total_pages == FloorDiv(total + limit - 1, limit)
    IN  IF page.kind = "raise" THEN page
        ELSE IF total_pages.kind = "raise" THEN total_pages
        ELSE Return([page |-> page.value,
                     page_size |-> limit,
                     total_pages |-> total_pages.value,
                     has_next |-> page.value < total_pages.value,
                     has_prev |-> page.value > 1,
                     total |-> total])

\* the same computation with total_pages = total // limit + 1
_calculate_pagination_info_roundup(total, skip, limit) ==
    LET page == IF limit /= 0 THEN Plus(FloorDiv(skip, limit), 1) ELSE Return(1)
        total_pages == IF limit /= 0 THEN Plus(FloorDiv(total, limit), 1) ELSE Return(0)
    IN  IF page.kind = "raise" THEN page
        ELSE IF total_pages.kind = "raise" THEN total_pages
        ELSE Return([page |-> page.value,
                     page_size |-> limit,
                     total_pages |-> total_pages.value,
                     has_next |-> page.value < total_pages.value,
                     has_prev |-> page.value > 1,
                     total |-> total])

\* builders.py, PaginationBuilder._calculate_pagination_info
_calculate_pagination_info(total, skip, limit) ==
    LET page == IF limit /= 0 THEN Plus(FloorDiv(skip, limit), 1) ELSE Return(1)
        total_pages == IF limit /= 0 THEN FloorDiv(total + limit - 1, limit)
                       ELSE Return(0)
    IN  IF page.kind = "raise" THEN page
        ELSE IF total_pages.kind = "raise" THEN total_pages
        ELSE Return([page |-> page.value,
                     page_size |-> limit,
                     total_pages |-> total_pages.value,
                     has_next |-> page.value < total_pages.value,
                     has_prev |-> page.value > 1,
                     total |-> total])

NoCall == [called |-> FALSE]

InitPagination ==
    /\ pg_args = NoCall
    /\ pg_info = NoCall

CalculatePaginationInfo(total, skip, limit) ==
    /\ pg_args' = [called |-> TRUE, total |-> total, skip |-> skip, limit |-> limit]
    /\ pg_info' = _calculate_pagination_info(total, skip, limit)
    /\ UNCHANGED <<appvars, callvars, uservars, productvars>>

NextPagination ==
    \E total \in 0..MaxTotal, skip \in 0..MaxSkip, limit \in 0..MaxLimit :
        CalculatePaginationInfo(total, skip, limit)

(***************************************************************************)
(* ErrorHandlerMiddleware.  Each handler yields its outcome, the log lines *)
(* it wrote, its own name (ran), the number of envelopes it built and, in  *)
(* steps, the order in which it logged and built.                          *)
(***************************************************************************)
\* _handle_not_found without its logger.warning call
_handle_not_found_quiet(req) ==
    [outcome |-> Return(ExceptionBuilder_route_not_found(req.path, req.method)),
     log |-> <<>>,
     ran |-> <<"_handle_not_found">>,
     built |-> 1,
     steps |-> <<"build">>]

_handle_not_found(req) ==
    [outcome |-> Return(ExceptionBuilder_route_not_found(req.path, req.method)),
     log |-> <<[level |-> "WARNING", event |-> "Route not found",
                method |-> req.method, path |-> req.path]>>,
     ran |-> <<"_handle_not_found">>,
     built |-> 1,
     steps |-> <<"log", "build">>]

\* getattr(ExceptionBuilder, name)
ExceptionBuilder_getattr(name) ==
    IF name \in ExceptionBuilder_attrs
    THEN Return(name)
    ELSE Raise(AttributeError("type object 'ExceptionBuilder' has no attribute '"
                              \o name \o "'"))

\* eval(response.body.decode()): the JSON text is evaluated as a Python
\* expression, in which the JSON literals true, false and null are
\* undefined names
eval_body(body) ==
    IF \E k \in DOMAIN body.json.v : body.json.v[k].t \in {"bool", "None"}
    THEN Raise([cls |-> "NameError", text |-> "name is not defined"])
    ELSE Return(body.json.v)

_handle_api_exception(req, exc) ==
    LET line == [level |-> "WARNING", event |-> "API Exception",
                 detail |-> exc.detail, path |-> req.path]
        attr == ExceptionBuilder_getattr("error")
        \* what follows runs only if the attribute lookup succeeds
        response == ResponseBuilder_error(exc.detail, exc.error_code,
                                          exc.status_code, EmptyDict)
        content == eval_body(response.body)
    IN  IF attr.kind = "raise"
        THEN [outcome |-> attr, log |-> <<line>>,
              ran |-> <<"_handle_api_exception">>, built |-> 0,
              steps |-> <<"log">>]
        ELSE IF DOMAIN exc.extra_data = {}
        THEN [outcome |-> Return(response), log |-> <<line>>,
              ran |-> <<"_handle_api_exception">>, built |-> 1,
              steps |-> <<"log", "build">>]
        ELSE IF content.kind = "raise"
        THEN [outcome |-> content, log |-> <<line>>,
              ran |-> <<"_handle_api_exception">>, built |-> 1,
              steps |-> <<"log", "build">>]
        ELSE [outcome |-> Return([response EXCEPT !.body =
                            render(PyDict(dict_update(content.value, exc.extra_data)))]),
              log |-> <<line>>,
              ran |-> <<"_handle_api_exception">>, built |-> 2,
              steps |-> <<"log", "build", "build">>]

_handle_validation_error(req, exc) ==
    [outcome |-> Return(ExceptionBuilder_validation_error(exc.errors,
                                                          PyStr("Validation error"))),
     log |-> <<[level |-> "WARNING", event |-> "Validation Error",
                errors |-> exc.errors, path |-> req.path]>>,
     ran |-> <<"_handle_validation_error">>,
     built |-> 1,
     steps |-> <<"log", "build">>]

\* _handle_http_exception answering a 404 as an unmatched route
_handle_http_exception_as_route(req, exc) ==
    [outcome |-> Return(ExceptionBuilder_route_not_found(req.path, req.method)),
     log |-> <<[level |-> "WARNING", event |-> "HTTP Exception",
                detail |-> exc.detail, path |-> req.path]>>,
     ran |-> <<"_handle_http_exception">>,
     built |-> 1,
     steps |-> <<"log", "build">>]

_handle_http_exception(req, exc) ==
    LET line == [level |-> "WARNING", event |-> "HTTP Exception",
                 detail |-> exc.detail, path |-> req.path]
        attr == ExceptionBuilder_getattr("error")
    IN  IF exc.status_code = 404
        THEN [outcome |-> Return(ExceptionBuilder_not_found(
                             PyStr("Resource"), PyNone,
                             IF str(exc.detail) /= "" THEN PyStr(str(exc.detail))
                             ELSE PyStr("Resource not found"))),
              log |-> <<line>>, ran |-> <<"_handle_http_exception">>, built |-> 1,
              steps |-> <<"log", "build">>]
        ELSE IF attr.kind = "raise"
        THEN [outcome |-> attr, log |-> <<line>>,
              ran |-> <<"_handle_http_exception">>, built |-> 0,
              steps |-> <<"log">>]
        ELSE [outcome |-> Return(ResponseBuilder_error(PyStr(str(exc.detail)),
                                     PyStr("HTTP_ERROR"), exc.status_code, EmptyDict)),
              log |-> <<line>>, ran |-> <<"_handle_http_exception">>, built |-> 1,
              steps |-> <<"log", "build">>]

\* an unknown-fault handler that puts str(exc) in the response
_handle_unknown_exception_leaky(req, exc) ==
    [outcome |-> Return(ExceptionBuilder_internal_error(PyStr(exc_str(exc)), PyNone)),
     log |-> <<[level |-> "ERROR", event |-> "Unhandled Exception",
                text |-> exc_str(exc), path |-> req.path]>>,
     ran |-> <<"_handle_unknown_exception">>,
     built |-> 1,
     steps |-> <<"log", "build">>]

_handle_unknown_exception(req, exc) ==
    [outcome |-> Return(ExceptionBuilder_internal_error(PyStr("Internal server error"),
                                                        PyNone)),
     log |-> <<[level |-> "ERROR", event |-> "Unhandled Exception",
                text |-> exc_str(exc), path |-> req.path]>>,
     ran |-> <<"_handle_unknown_exception">>,
     built |-> 1,
     steps |-> <<"log", "build">>]

handle_exception(req, exc) ==
    IF isinstance(exc, "BaseAPIException") THEN _handle_api_exception(req, exc)
    ELSE IF isinstance(exc, "RequestValidationError")
    THEN _handle_validation_error(req, exc)
    ELSE IF isinstance(exc, "StarletteHTTPException")
    THEN _handle_http_exception(req, exc)
    ELSE _handle_unknown_exception(req, exc)

\* dispatch answering with a new response of the same content and status
ErrorHandler_after_call_next_rebuilt(req, below) ==
    IF below.kind = "return"
    THEN IF below.value.status_code = 404
         THEN _handle_not_found(req)
         ELSE [outcome |-> Return(JSONResponse(below.value.body.json,
                                               below.value.status_code)),
               log |-> <<>>, ran |-> <<>>, built |-> 0, steps |-> <<>>]
    ELSE handle_exception(req, below.exc)

\* ErrorHandlerMiddleware.dispatch from the point where call_next(request)
\* has produced below: a returned response or a raised exception
ErrorHandler_after_call_next(req, below) ==
    IF below.kind = "return"
    THEN IF below.value.status_code = 404
         THEN _handle_not_found(req)
         ELSE [outcome |-> below, log |-> <<>>, ran |-> <<>>, built |-> 0,
               steps |-> <<>>]
    ELSE handle_exception(req, below.exc)

(***************************************************************************)
(* The routing layer below the middlewares                                 *)
(***************************************************************************)
\* main.py, not_found_handler: the response for a request no route matches
not_found_handler(req) ==
    ExceptionBuilder_route_not_found(req.path, req.method)

\* products.py, get_product
get_product(product_id) ==
    IF product_id \notin DemoProductIds
    THEN ExceptionBuilder_not_found(PyStr("Product"), PyInt(product_id), PyNone)
    ELSE ResponseBuilder_success(PyDict("id" :> PyInt(product_id)),
                                 PyStr("Product retrieved successfully"), 200, PyNone)

\* main.py, root: the handler returns a plain dict, which FastAPI serialises
\* as the JSON body of a 200 response
root ==
    JSONResponse(PyDict(("message" :> PyStr("Welcome to Product API"))
                        @@ ("version" :> PyStr("APP_VERSION"))
                        @@ ("docs" :> PyStr("/docs"))),
                 200)

\* main.py, health_check
health_check ==
    JSONResponse(PyDict("status" :> PyStr("healthy")), 200)

\* the exceptions the layer below the middlewares raises in the model
RaisedExceptions ==
    {ProductNotFoundException(PyInt(99)),
     ProductInvalidDataException(PyStr("Invalid product data")),
     RequestValidationError(PyList(<<"field required">>)),
     HTTPException(404, PyStr("Item not found")),
     HTTPException(404, PyStr("")),
     HTTPException(403, PyStr("Admin access required")),
     Exception("boom"),
     Exception("connection to db failed: password=hunter2")}

(***************************************************************************)
(* Requests through the stack                                              *)
(***************************************************************************)
InitApp ==
    /\ pc = [r \in Reqs |-> "idle"]
    /\ depth = [r \in Reqs |-> 0]
    /\ request = [r \in Reqs |-> NoRequest]
    /\ request_id = [r \in Reqs |-> PyNone]
    /\ outcome = [r \in Reqs |-> NoOutcome]
    /\ log = [r \in Reqs |-> <<>>]
    /\ uuid_next = 1
    /\ routed = [r \in Reqs |-> NoOutcome]
    /\ eh = [r \in Reqs |-> NoDispatch]
    /\ history = [r \in Reqs |-> <<>>]
    /\ rl = [r \in Reqs |-> NoDispatch]

InitCalls ==
    /\ call = NoCall
    /\ result = NoOutcome

(***************************************************************************)
(* The users table and the endpoints that write it.  A row is the record   *)
(* of its columns (hashed_password and the timestamps are left out: no     *)
(* endpoint below reads them).  Every handler is an `async def` that calls *)
(* the synchronous Session without awaiting in between, so one request is  *)
(* one step.  users.id is a serial column: an id, once given, is not given *)
(* again.  A bearer token is modelled by what verify_token makes of it:    *)
(* None, or a payload carrying a user_id.                                  *)
(***************************************************************************)
MaxUserRequests == 5

UserRole_ADMIN == PyStr("admin")
UserRole_USER == PyStr("user")

User(id, email, username, first_name, last_name, role, is_active, is_verified) ==
    [id |-> PyInt(id), email |-> email, username |-> username,
     first_name |-> first_name, last_name |-> last_name, role |-> role,
     is_active |-> is_active, is_verified |-> is_verified]

UserCreate(email, username, first_name, last_name) ==
    [email |-> email, username |-> username,
     first_name |-> first_name, last_name |-> last_name]

\* UserUpdate(**body): every field is Optional and defaults to None;
\* fields_set is what pydantic remembers the body to have set
UserUpdate(body) ==
    [data |-> [f \in {"email", "username", "first_name", "last_name", "role",
                       "is_active", "is_verified"} |->
                  IF f \in DOMAIN body THEN body[f] ELSE PyNone],
     fields_set |-> DOMAIN body]

\* user_data.model_dump(exclude_unset=True)
model_dump_exclude_unset(user_data) ==
    [f \in user_data.fields_set |-> user_data.data[f]]

IntegrityError(text) == [cls |-> "IntegrityError", text |-> text]

\* select(User).where(User.<column> == value) has a first row
select_where(table, column, value) ==
    \E id \in DOMAIN table : table[id][column] = value

\* db.commit() with one row changed: the constraints of the table are
\* checked, and the row is stored when they hold
commit(table, row) ==
    IF \E c \in {"email", "username", "role", "is_active", "is_verified"} :
           row[c] = PyNone
    THEN Raise(IntegrityError("null value violates not-null constraint"))
    ELSE IF \E id \in DOMAIN table :
                id /= row.id.v /\ table[id].email = row.email
    THEN Raise(IntegrityError("duplicate key value violates unique constraint"))
    ELSE Return([id \in DOMAIN table |-> IF id = row.id.v THEN row ELSE table[id]])

InvalidToken == [valid |-> FALSE]
AccessToken(user_id) == [valid |-> TRUE, user_id |-> user_id]

get_current_user(table, token) ==
    IF ~token.valid
    THEN Raise(HTTPException(401, PyStr("Could not validate credentials")))
    ELSE IF token.user_id \notin DOMAIN table
    THEN Raise(HTTPException(401, PyStr("Could not validate credentials")))
    ELSE IF ~Truthy(table[token.user_id].is_active)
    THEN Raise(HTTPException(403, PyStr("User account is disabled")))
    ELSE Return(table[token.user_id])

require_admin(table, token) ==
    LET current_user == get_current_user(table, token) IN
    IF current_user.kind = "raise" THEN current_user
    ELSE IF current_user.value.role /= UserRole_ADMIN
    THEN Raise(HTTPException(403, PyStr("Admin privileges required")))
    ELSE current_user

\* what a request leaves behind: the table, the sequence and the answer
Served(table, next_id, answer) ==
    [table |-> table, next_id |-> next_id, answer |-> answer]

\* POST /auth/register with a password of valid length
register_user(table, next_id, user_data) ==
    IF select_where(table, "email", user_data.email)
    THEN Served(table, next_id, Return(JSONResponse(
             PyDict(("success" :> PyBool(FALSE))
                 @@ ("message" :> PyStr("Email already registered"))
                 @@ ("error_code" :> PyStr("EMAIL_EXISTS"))), 400)))
    ELSE IF select_where(table, "username", user_data.username)
    THEN Served(table, next_id, Return(JSONResponse(
             PyDict(("success" :> PyBool(FALSE))
                 @@ ("message" :> PyStr("Username already taken"))
                 @@ ("error_code" :> PyStr("USERNAME_EXISTS"))), 400)))
    ELSE
        LET user_count == Cardinality(DOMAIN table)
            is_first_user == user_count = 0
            new_user == User(next_id, user_data.email, user_data.username,
                             user_data.first_name, user_data.last_name,
                             IF is_first_user THEN UserRole_ADMIN ELSE UserRole_USER,
                             PyBool(TRUE),
                             IF is_first_user THEN PyBool(TRUE) ELSE PyBool(FALSE))
        IN  Served((next_id :> new_user) @@ table, next_id + 1, Return(new_user))

update_my_profile_dumped(table, next_id, token, user_data) ==
    LET auth == get_current_user(table, token) IN
    IF auth.kind = "raise" THEN Served(table, next_id, auth)
    ELSE
    LET updated == dict_update(auth.value, model_dump_exclude_unset(user_data))
        committed == commit(table, updated)
    IN  IF committed.kind = "raise"
        THEN Served(table, next_id, committed)
        ELSE Served(committed.value, next_id, Return(updated))

\* PUT /users/me
update_my_profile(table, next_id, token, user_data) ==
    LET auth == get_current_user(table, token) IN
    IF auth.kind = "raise" THEN Served(table, next_id, auth)
    ELSE
    LET current_user == auth.value
        new_email == Truthy(user_data.data.email)
                     /\ user_data.data.email /= current_user.email
        with_email == IF new_email
                      THEN [current_user EXCEPT !.email = user_data.data.email]
                      ELSE current_user
        \* the query for the username flushes the email already set
        flushed == [id \in DOMAIN table |->
                       IF id = current_user.id.v THEN with_email ELSE table[id]]
        new_username == Truthy(user_data.data.username)
                        /\ user_data.data.username /= with_email.username
        with_username == IF new_username
                         THEN [with_email EXCEPT !.username = user_data.data.username]
                         ELSE with_email
        with_first == IF user_data.data.first_name /= PyNone
                      THEN [with_username EXCEPT !.first_name = user_data.data.first_name]
                      ELSE with_username
        with_last == IF user_data.data.last_name /= PyNone
                     THEN [with_first EXCEPT !.last_name = user_data.data.last_name]
                     ELSE with_first
        committed == commit(table, with_last)
    IN  IF new_email /\ select_where(table, "email", user_data.data.email)
        THEN Served(table, next_id,
                    Raise(HTTPException(400, PyStr("Email already taken"))))
        ELSE IF new_username
                /\ select_where(flushed, "username", user_data.data.username)
        THEN Served(table, next_id,
                    Raise(HTTPException(400, PyStr("Username already taken"))))
        ELSE IF committed.kind = "raise"
        THEN Served(table, next_id, committed)
        ELSE Served(committed.value, next_id, Return(with_last))

\* PUT /users/{user_id}
update_user(table, next_id, token, user_id, user_data) ==
    LET auth == require_admin(table, token) IN
    IF auth.kind = "raise" THEN Served(table, next_id, auth)
    ELSE IF user_id \notin DOMAIN table
    THEN Served(table, next_id, Raise(HTTPException(404, PyStr("User not found"))))
    ELSE
    LET current_user == auth.value
        user == table[user_id]
        update_data == model_dump_exclude_unset(user_data)
        updated == dict_update(user, update_data)
        committed == commit(table, updated)
    IN  IF user.id = current_user.id /\ user_data.data.is_active = PyBool(FALSE)
        THEN Served(table, next_id,
                    Raise(HTTPException(400, PyStr("You cannot deactivate yourself"))))
        ELSE IF committed.kind = "raise"
        THEN Served(table, next_id, committed)
        ELSE Served(committed.value, next_id, Return(updated))

delete_user_unguarded(table, next_id, token, user_id) ==
    LET auth == require_admin(table, token) IN
    IF auth.kind = "raise" THEN Served(table, next_id, auth)
    ELSE IF user_id \notin DOMAIN table
    THEN Served(table, next_id, Raise(HTTPException(404, PyStr("User not found"))))
    ELSE Served([id \in (DOMAIN table) \ {user_id} |-> table[id]], next_id,
                Return(PyNone))

\* DELETE /users/{user_id}
delete_user(table, next_id, token, user_id) ==
    LET auth == require_admin(table, token) IN
    IF auth.kind = "raise" THEN Served(table, next_id, auth)
    ELSE IF user_id \notin DOMAIN table
    THEN Served(table, next_id, Raise(HTTPException(404, PyStr("User not found"))))
    ELSE IF table[user_id].id = auth.value.id
    THEN Served(table, next_id,
                Raise(HTTPException(400, PyStr("You cannot delete yourself"))))
    ELSE Served([id \in (DOMAIN table) \ {user_id} |-> table[id]], next_id,
                Return(PyNone))

\* the three PATCH endpoints below set one column of the row and commit
set_column(table, next_id, user_id, column, value) ==
    LET user == [table[user_id] EXCEPT ![column] = value] IN
    Served([table EXCEPT ![user_id] = user], next_id, Return(user))

\* PATCH /users/{user_id}/activate
activate_user(table, next_id, token, user_id) ==
    LET auth == require_admin(table, token) IN
    IF auth.kind = "raise" THEN Served(table, next_id, auth)
    ELSE IF user_id \notin DOMAIN table
    THEN Served(table, next_id, Raise(HTTPException(404, PyStr("User not found"))))
    ELSE set_column(table, next_id, user_id, "is_active", PyBool(TRUE))

deactivate_user_unguarded(table, next_id, token, user_id) ==
    LET auth == require_admin(table, token) IN
    IF auth.kind = "raise" THEN Served(table, next_id, auth)
    ELSE IF user_id \notin DOMAIN table
    THEN Served(table, next_id, Raise(HTTPException(404, PyStr("User not found"))))
    ELSE set_column(table, next_id, user_id, "is_active", PyBool(FALSE))

\* PATCH /users/{user_id}/deactivate
deactivate_user(table, next_id, token, user_id) ==
    LET auth == require_admin(table, token) IN
    IF auth.kind = "raise" THEN Served(table, next_id, auth)
    ELSE IF user_id \notin DOMAIN table
    THEN Served(table, next_id, Raise(HTTPException(404, PyStr("User not found"))))
    ELSE IF table[user_id].id = auth.value.id
    THEN Served(table, next_id,
                Raise(HTTPException(400, PyStr("You cannot deactivate yourself"))))
    ELSE set_column(table, next_id, user_id, "is_active", PyBool(FALSE))

\* PATCH /users/{user_id}/verify
verify_user(table, next_id, token, user_id) ==
    LET auth == require_admin(table, token) IN
    IF auth.kind = "raise" THEN Served(table, next_id, auth)
    ELSE IF user_id \notin DOMAIN table
    THEN Served(table, next_id, Raise(HTTPException(404, PyStr("User not found"))))
    ELSE set_column(table, next_id, user_id, "is_verified", PyBool(TRUE))

\* the requests that are sent
UserIds == 1..3
Tokens == {InvalidToken} \cup {AccessToken(id) : id \in UserIds}
UserCreates ==
    {UserCreate(PyStr("a@x"), PyStr("ann"), PyNone, PyNone),
     UserCreate(PyStr("b@x"), PyStr("bob"), PyNone, PyNone),
     UserCreate(PyStr("b@x"), PyStr("ann"), PyNone, PyNone)}
UserUpdates ==
    {UserUpdate(EmptyDict),
     UserUpdate("is_active" :> PyBool(FALSE)),
     UserUpdate("is_active" :> PyNone),
     UserUpdate("role" :> UserRole_ADMIN),
     UserUpdate("role" :> UserRole_USER),
     UserUpdate(("role" :> UserRole_ADMIN) @@ ("is_active" :> PyBool(FALSE))
                @@ ("is_verified" :> PyBool(TRUE)) @@ ("first_name" :> PyStr("New"))),
     UserUpdate("email" :> PyStr("b@x")),
     UserUpdate("username" :> PyStr("ann")),
     UserUpdate(("email" :> PyStr("a@x")) @@ ("username" :> PyStr("bob")))}

NoUsers == [id \in {} |-> PyNone]

InitUsers ==
    /\ users = NoUsers
    /\ next_user_id = 1
    /\ user_op = [called |-> FALSE, served |-> 0]

\* one request served: the table and the sequence are what it left, and
\* user_op remembers the request, the table it met and the answer
Serve(op, token, user_id, user_data, served) ==
    /\ user_op.served < MaxUserRequests
    /\ users' = served.table
    /\ next_user_id' = served.next_id
    /\ user_op' = [called |-> TRUE, served |-> user_op.served + 1,
                   op |-> op, token |-> token,
                   user_id |-> user_id, user_data |-> user_data,
                   before |-> users, answer |-> served.answer]
    /\ UNCHANGED <<pgvars, appvars, callvars, productvars>>

Request_register ==
    \E user_data \in UserCreates :
        Serve("register_user", InvalidToken, 0, user_data,
              register_user(users, next_user_id, user_data))

Request_update_my_profile ==
    \E token \in Tokens, user_data \in UserUpdates :
        Serve("update_my_profile", token, 0, user_data,
              update_my_profile(users, next_user_id, token, user_data))

Request_update_user ==
    \E token \in Tokens, user_id \in UserIds, user_data \in UserUpdates :
        Serve("update_user", token, user_id, user_data,
              update_user(users, next_user_id, token, user_id, user_data))

Request_delete_user ==
    \E token \in Tokens, user_id \in UserIds :
        Serve("delete_user", token, user_id, PyNone,
              delete_user(users, next_user_id, token, user_id))

Request_activate_user ==
    \E token \in Tokens, user_id \in UserIds :
        Serve("activate_user", token, user_id, PyNone,
              activate_user(users, next_user_id, token, user_id))

Request_deactivate_user ==
    \E token \in Tokens, user_id \in UserIds :
        Serve("deactivate_user", token, user_id, PyNone,
              deactivate_user(users, next_user_id, token, user_id))

Request_verify_user ==
    \E token \in Tokens, user_id \in UserIds :
        Serve("verify_user", token, user_id, PyNone,
              verify_user(users, next_user_id, token, user_id))

NextUsers ==
    \/ Request_register
    \/ Request_update_my_profile
    \/ Request_update_user
    \/ Request_delete_user
    \/ Request_activate_user
    \/ Request_deactivate_user
    \/ Request_verify_user

(***************************************************************************)
(* The product store: ProductService is a BaseService whose _db maps an id *)
(* to the stored dict and whose _next_id is the id the next create gives.  *)
(* The module-level singleton is built once, with the demo products.       *)
(***************************************************************************)
MaxProductId == 10

Product(id, name, description, price, category, stock, is_active) ==
    [id |-> PyInt(id), name |-> PyStr(name), description |-> PyStr(description),
     price |-> [t |-> "float", v |-> price], category |-> PyStr(category),
     stock |-> PyInt(stock), is_active |-> PyBool(is_active)]

demo_products ==
    <<Product(1, "Laptop", "High-performance laptop for professionals",
              "1299.99", "Electronics", 15, TRUE),
      Product(2, "Wireless Mouse", "Ergonomic wireless mouse with precision tracking",
              "29.99", "Electronics", 50, TRUE),
      Product(3, "Mechanical Keyboard", "RGB mechanical keyboard with blue switches",
              "89.99", "Electronics", 25, TRUE),
      Product(4, "HD Monitor 27\"", "27-inch Full HD monitor with IPS panel",
              "249.99", "Electronics", 10, TRUE),
      Product(5, "USB-C Hub", "7-in-1 USB-C hub with power delivery",
              "49.99", "Accessories", 30, TRUE),
      Product(6, "Webcam 1080p", "Full HD webcam with auto-focus",
              "79.99", "Electronics", 20, TRUE),
      Product(7, "Desk Lamp LED", "Adjustable LED desk lamp with touch control",
              "39.99", "Office", 40, TRUE),
      Product(8, "Noise-Cancelling Headphones",
              "Over-ear headphones with active noise cancellation",
              "199.99", "Audio", 12, TRUE)>>

\* what a method leaves behind: _db, _next_id and the value it returned
Store(db, next_id, returned) ==
    [db |-> db, next_id |-> next_id, returned |-> returned]

\* the loop of _initialize_demo_data over products[i..]
RECURSIVE _initialize_demo_data(_, _, _)
_initialize_demo_data(store, products, i) ==
    IF i > Len(products) THEN store
    ELSE LET product == products[i] IN
         _initialize_demo_data(
             Store((product.id.v :> product) @@ store.db,
                   IF store.next_id >= product.id.v + 1
                   THEN store.next_id ELSE product.id.v + 1,
                   PyNone),
             products, i + 1)

\* ProductService(): BaseService.__init__, then the demo data
ProductService_init ==
    _initialize_demo_data(Store([id \in {} |-> EmptyDict], 1, PyNone),
                          demo_products, 1)

ProductCreate(name, description, price, category, stock, is_active) ==
    [name |-> PyStr(name), description |-> description, price |-> [t |-> "float", v |-> price],
     category |-> PyStr(category), stock |-> PyInt(stock),
     is_active |-> PyBool(is_active)]

\* ProductUpdate(**body): a key of the body that is no field of the schema
\* is ignored, every field defaults to None
ProductUpdate(body) ==
    LET fields == {"name", "description", "price", "category", "stock", "is_active"}
    IN  [data |-> [f \in fields |-> IF f \in DOMAIN body THEN body[f] ELSE PyNone],
         fields_set |-> (DOMAIN body) \cap fields]

BaseService_get_by_id(db, entity_id) ==
    IF entity_id \in DOMAIN db THEN PyDict(db[entity_id]) ELSE PyNone

BaseService_create_after_max(db, next_id, entity_data) ==
    LET keys == DOMAIN db
        id == IF keys = {} THEN 1
              ELSE (CHOOSE k \in keys : \A j \in keys : j <= k) + 1
        entity_dict == ("id" :> PyInt(id)) @@ entity_data
    IN  Store((id :> entity_dict) @@ db, id + 1, PyDict(entity_dict))

BaseService_create(db, next_id, entity_data) ==
    LET entity_dict == ("id" :> PyInt(next_id)) @@ entity_data
    IN  Store((next_id :> entity_dict) @@ db, next_id + 1, PyDict(entity_dict))

BaseService_update(db, next_id, entity_id, entity_data) ==
    IF entity_id \notin DOMAIN db THEN Store(db, next_id, PyNone)
    ELSE LET update_data == model_dump_exclude_unset(entity_data)
             stored_entity == dict_update(db[entity_id], update_data)
         IN  Store([db EXCEPT ![entity_id] = stored_entity], next_id,
                   PyDict(stored_entity))

BaseService_delete(db, next_id, entity_id) ==
    IF entity_id \notin DOMAIN db THEN Store(db, next_id, PyBool(FALSE))
    ELSE Store([id \in (DOMAIN db) \ {entity_id} |-> db[id]], next_id, PyBool(TRUE))

ProductService_update_stock(db, next_id, product_id, quantity) ==
    LET product == BaseService_get_by_id(db, product_id) IN
    IF ~Truthy(product) THEN Store(db, next_id, PyNone)
    ELSE LET updated == [product.v EXCEPT !["stock"] = PyInt(quantity)]
         IN  Store([db EXCEPT ![product_id] = updated], next_id, PyDict(updated))

\* the calls that are made
ProductIds == {8} \cup (9..MaxProductId + 1)
ProductCreates ==
    {ProductCreate("Cable", PyNone, "4.5", "Accessories", 0, TRUE),
     ProductCreate("Stand", PyStr("Monitor stand"), "19.99", "Office", 3, FALSE)}
ProductUpdates ==
    {ProductUpdate(EmptyDict),
     ProductUpdate(("name" :> PyStr("Renamed")) @@ ("is_active" :> PyBool(FALSE))),
     ProductUpdate(("id" :> PyInt(1)) @@ ("stock" :> PyInt(0)))}

InitProducts ==
    /\ _db = ProductService_init.db
    /\ _next_id = ProductService_init.next_id
    \* issued: the ids that demo data or a create has used so far
    /\ product_op = [called |-> FALSE, issued |-> DOMAIN ProductService_init.db]

\* one call made: _db and _next_id are what it left, and product_op remembers
\* the call, what it returned, and the ids used before and after it
Made(op, entity_id, store) ==
    /\ _db' = store.db
    /\ _next_id' = store.next_id
    /\ product_op' = [called |-> TRUE, op |-> op, entity_id |-> entity_id,
                      returned |-> store.returned,
                      earlier |-> product_op.issued,
                      issued |-> product_op.issued
                                 \cup (IF op = "create" THEN {store.returned.v["id"].v}
                                       ELSE {})]
    /\ UNCHANGED <<pgvars, appvars, callvars, uservars>>

Product_create ==
    /\ _next_id <= MaxProductId
    /\ \E entity_data \in ProductCreates :
           Made("create", 0, BaseService_create(_db, _next_id, entity_data))

Product_update ==
    \E entity_id \in ProductIds, entity_data \in ProductUpdates :
        Made("update", entity_id,
             BaseService_update(_db, _next_id, entity_id, entity_data))

Product_delete ==
    \E entity_id \in ProductIds :
        Made("delete", entity_id, BaseService_delete(_db, _next_id, entity_id))

Product_update_stock ==
    \E product_id \in ProductIds, quantity \in {0, 7} :
        Made("update_stock", product_id,
             ProductService_update_stock(_db, _next_id, product_id, quantity))

NextProducts ==
    \/ Product_create
    \/ Product_update
    \/ Product_delete
    \/ Product_update_stock

Init == InitPagination /\ InitApp /\ InitCalls /\ InitUsers /\ InitProducts

SpecPagination == Init /\ [][NextPagination]_vars

SpecUsers == Init /\ [][NextUsers]_vars

SpecProducts == Init /\ [][NextProducts]_vars

Layer(r) == dispatch_stack[depth[r]]

\* a layer hands the request to the next one (await call_next(request))
Inward(r) ==
    /\ depth' = [depth EXCEPT ![r] = depth[r] + 1]
    /\ history' = [history EXCEPT ![r] = Append(history[r], <<"enter", Layer(r)>>)]

\* a layer hands its outcome to the layer that wraps it; the outcome of the
\* outermost layer leaves the application
Outward(r) ==
    /\ depth' = [depth EXCEPT ![r] = depth[r] - 1]
    /\ pc' = [pc EXCEPT ![r] = IF depth[r] = 1 THEN "done" ELSE "outbound"]
    /\ history' = [history EXCEPT ![r] = Append(history[r], <<"exit", Layer(r)>>)]

InLayer(r, dir, cls) ==
    /\ pc[r] = dir
    /\ depth[r] \in 1..NumLayers
    /\ Layer(r) = cls

\* the server hands an inbound request to the outermost layer
Receive(r, method, path) ==
    /\ pc[r] = "idle"
    /\ pc' = [pc EXCEPT ![r] = "inbound"]
    /\ depth' = [depth EXCEPT ![r] = 1]
    /\ request' = [request EXCEPT ![r] = [method |-> PyStr(method), path |-> PyStr(path)]]
    /\ UNCHANGED <<request_id, outcome, log, uuid_next, routed, eh, rl, history, pgvars, callvars, uservars, productvars>>

\* an id source that returns the same value at every call
uuid4_constant(r) == PyStr("uuid-0")

\* uuid.uuid4() as called while request r is served: the source returns a value
\* no other call returns, so the value is named after the call's request
uuid4(r) == PyStr("uuid-" \o ToString(r))

\* RequestLoggingMiddleware.dispatch up to await call_next(request)
RequestLogging_enter(r) ==
    /\ InLayer(r, "inbound", "RequestLoggingMiddleware")
    /\ uuid_next <= MaxRequests
    /\ request_id' = [request_id EXCEPT ![r] = uuid4(r)]
    /\ uuid_next' = uuid_next + 1
    /\ log' = [log EXCEPT ![r] = Append(log[r],
                  [level |-> "INFO", event |-> "Request started",
                   method |-> request[r].method, path |-> request[r].path,
                   id |-> request_id'[r]])]
    /\ Inward(r)
    /\ UNCHANGED <<pc, request, outcome, routed, eh, rl, pgvars, callvars, uservars, productvars>>

\* the same dispatch with an except branch that raises again without logging
RequestLogging_exit_silent(r) ==
    /\ InLayer(r, "outbound", "RequestLoggingMiddleware")
    /\ IF outcome[r].kind = "return"
       THEN /\ log' = [log EXCEPT ![r] = Append(log[r],
                          [level |-> "INFO", event |-> "Request completed",
                           method |-> request[r].method, path |-> request[r].path,
                           id |-> request_id[r],
                           status |-> outcome[r].value.status_code])]
            /\ outcome' = [outcome EXCEPT ![r] = Return(
                              [outcome[r].value EXCEPT !.headers =
                                  dict_update(outcome[r].value.headers,
                                      ("X-Request-ID" :> request_id[r])
                                      @@ ("X-Process-Time" :> PyStr("duration")))])]
       ELSE /\ log' = log
            /\ outcome' = outcome
    /\ rl' = [rl EXCEPT ![r] = [called |-> TRUE, below |-> outcome[r],
                                result |-> outcome'[r]]]
    /\ Outward(r)
    /\ UNCHANGED <<request, request_id, uuid_next, routed, eh, pgvars, callvars, uservars, productvars>>

\* RequestLoggingMiddleware.dispatch after call_next(request) returned or raised
RequestLogging_exit(r) ==
    /\ InLayer(r, "outbound", "RequestLoggingMiddleware")
    /\ IF outcome[r].kind = "return"
       THEN /\ log' = [log EXCEPT ![r] = Append(log[r],
                          [level |-> "INFO", event |-> "Request completed",
                           method |-> request[r].method, path |-> request[r].path,
                           id |-> request_id[r],
                           status |-> outcome[r].value.status_code])]
            /\ outcome' = [outcome EXCEPT ![r] = Return(
                              [outcome[r].value EXCEPT !.headers =
                                  dict_update(outcome[r].value.headers,
                                      ("X-Request-ID" :> request_id[r])
                                      @@ ("X-Process-Time" :> PyStr("duration")))])]
       ELSE /\ log' = [log EXCEPT ![r] = Append(log[r],
                          [level |-> "ERROR", event |-> "Request failed",
                           method |-> request[r].method, path |-> request[r].path,
                           id |-> request_id[r],
                           error |-> exc_str(outcome[r].exc)])]
            /\ outcome' = outcome
    /\ rl' = [rl EXCEPT ![r] = [called |-> TRUE, below |-> outcome[r],
                                result |-> outcome'[r]]]
    /\ Outward(r)
    /\ UNCHANGED <<request, request_id, uuid_next, routed, eh, pgvars, callvars, uservars, productvars>>

\* ErrorHandlerMiddleware.dispatch up to await call_next(request)
ErrorHandler_enter(r) ==
    /\ InLayer(r, "inbound", "ErrorHandlerMiddleware")
    /\ Inward(r)
    /\ UNCHANGED <<pc, request, request_id, outcome, log, uuid_next, routed, eh, rl, pgvars, callvars, uservars, productvars>>

\* ErrorHandlerMiddleware.dispatch after call_next(request) returned or raised
ErrorHandler_exit(r) ==
    /\ InLayer(r, "outbound", "ErrorHandlerMiddleware")
    /\ LET res == ErrorHandler_after_call_next(request[r], outcome[r])
       IN  /\ outcome' = [outcome EXCEPT ![r] = res.outcome]
           /\ log' = [log EXCEPT ![r] = log[r] \o res.log]
           /\ eh' = [eh EXCEPT ![r] = [called |-> TRUE, below |-> outcome[r],
                                       result |-> res.outcome, ran |-> res.ran,
                                       built |-> res.built, log |-> res.log,
                                       steps |-> res.steps]]
    /\ Outward(r)
    /\ UNCHANGED <<request, request_id, uuid_next, routed, rl, pgvars, callvars, uservars, productvars>>

\* the router: no route matches
Route_unmatched(r) ==
    /\ pc[r] = "inbound" /\ depth[r] = NumLayers + 1
    /\ route_of(str(request[r].method), str(request[r].path)) = "None"
    /\ outcome' = [outcome EXCEPT ![r] = Return(not_found_handler(request[r]))]
    /\ routed' = [routed EXCEPT ![r] = [kind |-> "unmatched"]]
    /\ pc' = [pc EXCEPT ![r] = "outbound"]
    /\ depth' = [depth EXCEPT ![r] = NumLayers]
    /\ UNCHANGED <<request, request_id, log, uuid_next, eh, rl, history, pgvars, callvars, uservars, productvars>>

\* the router: get_product runs and returns its response
Route_get_product(r) ==
    /\ pc[r] = "inbound" /\ depth[r] = NumLayers + 1
    /\ route_of(str(request[r].method), str(request[r].path)) = "get_product"
    /\ LET response == get_product(product_id_of(str(request[r].path)))
       IN  /\ outcome' = [outcome EXCEPT ![r] = Return(response)]
           /\ routed' = [routed EXCEPT ![r] = [kind |-> "handler",
                                               response |-> response]]
    /\ pc' = [pc EXCEPT ![r] = "outbound"]
    /\ depth' = [depth EXCEPT ![r] = NumLayers]
    /\ UNCHANGED <<request, request_id, log, uuid_next, eh, rl, history, pgvars, callvars, uservars, productvars>>

\* the router: root or health_check runs and returns its dict
Route_plain(r) ==
    /\ pc[r] = "inbound" /\ depth[r] = NumLayers + 1
    /\ route_of(str(request[r].method), str(request[r].path)) \in {"root", "health_check"}
    /\ LET response == IF route_of(str(request[r].method), str(request[r].path)) = "root"
                       THEN root ELSE health_check
       IN  /\ outcome' = [outcome EXCEPT ![r] = Return(response)]
           /\ routed' = [routed EXCEPT ![r] = [kind |-> "handler",
                                               response |-> response]]
    /\ pc' = [pc EXCEPT ![r] = "outbound"]
    /\ depth' = [depth EXCEPT ![r] = NumLayers]
    /\ UNCHANGED <<request, request_id, log, uuid_next, eh, rl, history, pgvars, callvars, uservars, productvars>>

\* the route with dependencies and a service call, one of these or a layer
\* below it raises
Route_raises(r, exc) ==
    /\ pc[r] = "inbound" /\ depth[r] = NumLayers + 1
    /\ route_of(str(request[r].method), str(request[r].path)) = "get_product"
    /\ outcome' = [outcome EXCEPT ![r] = Raise(exc)]
    /\ routed' = [routed EXCEPT ![r] = [kind |-> "raised", exc |-> exc]]
    /\ pc' = [pc EXCEPT ![r] = "outbound"]
    /\ depth' = [depth EXCEPT ![r] = NumLayers]
    /\ UNCHANGED <<request, request_id, log, uuid_next, eh, rl, history, pgvars, callvars, uservars, productvars>>

Next ==
    \/ \E r \in Reqs, mp \in Requests : Receive(r, mp[1], mp[2])
    \/ \E r \in Reqs : RequestLogging_enter(r)
    \/ \E r \in Reqs : RequestLogging_exit(r)
    \/ \E r \in Reqs : ErrorHandler_enter(r)
    \/ \E r \in Reqs : ErrorHandler_exit(r)
    \/ \E r \in Reqs : Route_unmatched(r)
    \/ \E r \in Reqs : Route_get_product(r)
    \/ \E r \in Reqs : Route_plain(r)
    \/ \E r \in Reqs, exc \in RaisedExceptions : Route_raises(r, exc)

Spec == Init /\ [][Next]_vars

\* C1: for total >= 0, skip >= 0, limit >= 1 the call returns
\* page = floor(skip/limit)+1 (the page-1 full pages are the most that fit in
\* skip), total_pages = ceil(total/limit) (the least number of pages of size
\* limit that hold total items), has_next <=> page < total_pages,
\* has_prev <=> page > 1, page_size = limit and total = total.
PaginationFormulas ==
    (pg_args.called /\ pg_args.limit >= 1) =>
        /\ pg_info.kind = "return"
        /\ LET i == pg_info.value
               a == pg_args
           IN  /\ (i.page - 1) * a.limit <= a.skip
               /\ a.skip < i.page * a.limit
               /\ i.total_pages * a.limit >= a.total
               /\ (i.total_pages - 1) * a.limit < a.total
               /\ i.total_pages >= 0
               /\ i.has_next = (i.page < i.total_pages)
               /\ i.has_prev = (i.page > 1)
               /\ i.page_size = a.limit
               /\ i.total = a.total

\* the spec's example: total=5, skip=4, limit=2 is the last of three pages
PaginationLastPageReached ==
    /\ pg_args.called
    /\ pg_args.total = 5 /\ pg_args.skip = 4 /\ pg_args.limit = 2
    /\ pg_info.kind = "return"
    /\ pg_info.value.page = 3 /\ pg_info.value.total_pages = 3
    /\ ~pg_info.value.has_next /\ pg_info.value.has_prev

\* C2: for limit = 0 the call raises no ZeroDivisionError and returns
\* page = 1, total_pages = 0, has_next = false, has_prev = false.
PaginationZeroLimit ==
    (pg_args.called /\ pg_args.limit = 0) =>
        /\ pg_info.kind = "return"
        /\ pg_info.value.page = 1
        /\ pg_info.value.total_pages = 0
        /\ pg_info.value.has_next = FALSE
        /\ pg_info.value.has_prev = FALSE

PaginationZeroLimitReached ==
    /\ pg_args.called
    /\ pg_args.limit = 0 /\ pg_args.total = 5 /\ pg_args.skip = 3
    /\ pg_info.kind = "return"

(***************************************************************************)
(* Properties of the middleware stack                                      *)
(***************************************************************************)
Done(r) == pc[r] = "done"
Unmatched(r) == route_of(str(request[r].method), str(request[r].path)) = "None"
\* the content of the JSON body of a response
Content(response) == response.body.json.v

\* C3: a request to a path/method with no registered route ends with a
\* response of status 404 whose body has success=false,
\* error_code="ROUTE_NOT_FOUND", message "Route '{method} {path}' not found",
\* and the request's own path and method as top-level fields.
UnmatchedRouteEnvelope ==
    \A r \in Reqs :
        (Done(r) /\ Unmatched(r)) =>
            /\ outcome[r].kind = "return"
            /\ outcome[r].value.status_code = 404
            /\ LET body == Content(outcome[r].value)
               IN  /\ {"success", "error_code", "message", "path", "method"}
                          \subseteq DOMAIN body
                   /\ body["success"] = PyBool(FALSE)
                   /\ body["error_code"] = PyStr("ROUTE_NOT_FOUND")
                   /\ body["message"] =
                          PyStr("Route '" \o request[r].method.v \o " "
                                \o request[r].path.v \o "' not found")
                   /\ body["path"] = request[r].path
                   /\ body["method"] = request[r].method

UnmatchedRouteAnswered ==
    \E r \in Reqs :
        /\ Done(r)
        /\ request[r] = [method |-> PyStr("POST"), path |-> PyStr("/nonexistent")]
        /\ routed[r].kind = "unmatched"
        /\ outcome[r].kind = "return"
        /\ Content(outcome[r].value)["message"] =
               PyStr("Route 'POST /nonexistent' not found")
        /\ eh[r].called /\ eh[r].ran = <<"_handle_not_found">>

\* C4: a 404 envelope that a route handler built itself (get_product's
\* not_found("Product", id), error_code NOT_FOUND) reaches the client
\* unchanged and is not rewritten to ROUTE_NOT_FOUND.
HandlerBuilt404Unchanged ==
    \A r \in Reqs :
        (Done(r) /\ routed[r].kind = "handler"
                 /\ routed[r].response.status_code = 404) =>
            /\ outcome[r].kind = "return"
            /\ outcome[r].value.status_code = 404
            /\ outcome[r].value.body = routed[r].response.body
            /\ Content(outcome[r].value)["error_code"] = PyStr("NOT_FOUND")

\* C5: for every exception raised by the layer below it,
\* ErrorHandlerMiddleware.dispatch returns a response; no exception
\* propagates out of dispatch.
DispatchAlwaysReturns ==
    \A r \in Reqs :
        (eh[r].called /\ eh[r].below.kind = "raise") => eh[r].result.kind = "return"

\* C6: a raised BaseAPIException becomes one error envelope with
\* success=false whose status, message and error_code are the exception's
\* status_code, detail and error_code, with its extra_data fields merged at
\* the top level of the body.
ApiExceptionEnvelope ==
    \A r \in Reqs :
        (/\ eh[r].called
         /\ eh[r].below.kind = "raise"
         /\ isinstance(eh[r].below.exc, "BaseAPIException")) =>
            LET exc == eh[r].below.exc
            IN  /\ eh[r].result.kind = "return"
                /\ eh[r].built = 1
                /\ eh[r].result.value.status_code = exc.status_code
                /\ LET body == Content(eh[r].result.value)
                   IN  /\ body["success"] = PyBool(FALSE)
                       /\ body["message"] = exc.detail
                       /\ body["error_code"] = exc.error_code
                       /\ \A k \in DOMAIN exc.extra_data :
                              k \in DOMAIN body /\ body[k] = exc.extra_data[k]

\* the handler that the precedence API exception, validation exception, HTTP
\* exception, unknown fault picks for an exception
HandlerByPrecedence(exc) ==
    CASE "BaseAPIException" \in Bases(exc.cls) -> "_handle_api_exception"
      [] "BaseAPIException" \notin Bases(exc.cls)
         /\ "RequestValidationError" \in Bases(exc.cls) -> "_handle_validation_error"
      [] {"BaseAPIException", "RequestValidationError"} \cap Bases(exc.cls) = {}
         /\ "StarletteHTTPException" \in Bases(exc.cls) -> "_handle_http_exception"
      [] OTHER -> "_handle_unknown_exception"

\* C7: for each raised exception handle_exception runs exactly one handler
\* branch, the one the precedence picks (an exception that is both a
\* BaseAPIException and an HTTP exception runs the API branch only), and
\* exactly one envelope is built for it.
OneBranchOneEnvelope ==
    \A r \in Reqs :
        (eh[r].called /\ eh[r].below.kind = "raise") =>
            /\ eh[r].ran = <<HandlerByPrecedence(eh[r].below.exc)>>
            /\ eh[r].built = 1

UnknownFault(r) ==
    /\ routed[r].kind = "raised"
    /\ {"BaseAPIException", "RequestValidationError", "StarletteHTTPException"}
           \cap Bases(routed[r].exc.cls) = {}

\* C8: for an unknown fault the client response is status 500 with
\* error_code "INTERNAL_ERROR" and message "Internal server error", and is
\* the same for any two faults whatever their exception text; the text
\* appears only in the server-side log line.
UnknownFaultOpaque ==
    \A r1 \in Reqs :
        (Done(r1) /\ UnknownFault(r1)) =>
            /\ outcome[r1].kind = "return"
            /\ outcome[r1].value.status_code = 500
            /\ Content(outcome[r1].value) =
                   ("success" :> PyBool(FALSE))
                   @@ ("message" :> PyStr("Internal server error"))
                   @@ ("error_code" :> PyStr("INTERNAL_ERROR"))
            /\ \E i \in DOMAIN log[r1] :
                   /\ log[r1][i].event = "Unhandled Exception"
                   /\ log[r1][i].text = routed[r1].exc.text
            /\ \A r2 \in Reqs :
                   (Done(r2) /\ UnknownFault(r2)) => outcome[r2] = outcome[r1]

TwoUnknownFaultsAnswered ==
    \E r1, r2 \in Reqs :
        /\ Done(r1) /\ UnknownFault(r1)
        /\ Done(r2) /\ UnknownFault(r2)
        /\ routed[r1].exc.text /= routed[r2].exc.text
        /\ outcome[r1].kind = "return" /\ outcome[r1] = outcome[r2]
        /\ eh[r1].ran = <<"_handle_unknown_exception">>

\* C9: every response delivered to the client carries the X-Request-ID
\* header, and its value is the id written in that request's 'Request
\* started' and 'Request completed' log lines.
EveryResponseCarriesRequestId ==
    \A r \in Reqs :
        (Done(r) /\ outcome[r].kind = "return") =>
            /\ "X-Request-ID" \in DOMAIN outcome[r].value.headers
            /\ outcome[r].value.headers["X-Request-ID"] = request_id[r]
            /\ \E i \in DOMAIN log[r] :
                   log[r][i].event = "Request started" /\ log[r][i].id = request_id[r]
            /\ \E i \in DOMAIN log[r] :
                   log[r][i].event = "Request completed" /\ log[r][i].id = request_id[r]

\* C10: RequestLoggingMiddleware is the outer of the two custom layers:
\* every request enters it before it enters ErrorHandlerMiddleware, and the
\* outcome of ErrorHandlerMiddleware passes back through it before leaving.
LoggingWrapsErrorHandling ==
    \A r \in Reqs :
        Done(r) =>
            /\ \E i, j \in DOMAIN history[r] :
                   /\ i < j
                   /\ history[r][i] = <<"enter", "RequestLoggingMiddleware">>
                   /\ history[r][j] = <<"enter", "ErrorHandlerMiddleware">>
            /\ \E i, j \in DOMAIN history[r] :
                   /\ i < j
                   /\ history[r][i] = <<"exit", "ErrorHandlerMiddleware">>
                   /\ history[r][j] = <<"exit", "RequestLoggingMiddleware">>

\* C11: the JSON body of every response the application delivers, the ones
\* of GET / and GET /health included, has a boolean success field and a
\* string message field.
EveryBodyHasSuccessAndMessage ==
    \A r \in Reqs :
        (Done(r) /\ outcome[r].kind = "return") =>
            LET body == Content(outcome[r].value)
            IN  /\ {"success", "message"} \subseteq DOMAIN body
                /\ body["success"].t = "bool"
                /\ body["message"].t = "str"

(***************************************************************************)
(* Calls of the builders with arguments of the caller's choice             *)
(***************************************************************************)
\* the pagination metadata as the dict that build puts in the body
pagination_dict(info) ==
    PyDict(("page" :> PyInt(info.page))
           @@ ("page_size" :> PyInt(info.page_size))
           @@ ("total_pages" :> PyInt(info.total_pages))
           @@ ("has_next" :> PyBool(info.has_next))
           @@ ("has_prev" :> PyBool(info.has_prev))
           @@ ("total" :> PyInt(info.total)))

\* build returning only the first limit items
PaginationBuilder_build_sliced(items, total, skip, limit, message, metadata) ==
    LET pagination_info == _calculate_pagination_info(total, skip, limit)
        page == PyList(SubSeq(items.v, 1, IF limit < Len(items.v) THEN limit
                                          ELSE Len(items.v)))
    IN  IF pagination_info.kind = "raise" THEN pagination_info
        ELSE Return(JSONResponse(
                 PyDict(("success" :> PyBool(TRUE))
                        @@ ("message" :> message)
                        @@ ("items" :> page)
                        @@ ("pagination" :> pagination_dict(pagination_info.value))),
                 200))

\* builders.py, PaginationBuilder.build; metadata is the dict of the extra
\* keyword arguments
PaginationBuilder_build(items, total, skip, limit, message, metadata) ==
    LET pagination_info == _calculate_pagination_info(total, skip, limit)
    IN  IF pagination_info.kind = "raise" THEN pagination_info
        ELSE LET response_data ==
                     ("success" :> PyBool(TRUE))
                     @@ ("message" :> message)
                     @@ ("items" :> items)
                     @@ ("pagination" :> pagination_dict(pagination_info.value))
                 with_metadata ==
                     IF DOMAIN metadata /= {}
                     THEN dict_update(response_data, "metadata" :> PyDict(metadata))
                     ELSE response_data
             IN  Return(JSONResponse(PyDict(with_metadata), 200))

\* builders.py, PaginationBuilder.from_params; pagination_params is an object
\* with the attributes skip and limit
PaginationBuilder_from_params(items, total, pagination_params, message, metadata) ==
    PaginationBuilder_build(items, total, pagination_params.skip,
                            pagination_params.limit, message, metadata)

\* argument values of the calls of the model
Messages == {PyStr("Done"), PyStr("")}
Datas == {PyNone, PyInt(0), PyList(<<>>), PyDict("id" :> PyInt(1))}
Metadatas == {PyNone, PyDict(EmptyDict), PyDict("count" :> PyInt(1))}
ErrorCodes == {PyNone, PyStr(""), PyStr("CUSTOM")}
StatusCodes == {200, 202, 400, 418}
\* extra keyword arguments: any name that is not a parameter of the operation
ExtraDatas ==
    {EmptyDict, "field" :> PyStr("name"), "data" :> PyInt(1),
     "success" :> PyBool(TRUE)}
\* error_code is no parameter of build, so it is one more keyword there
BuildMetadatas == ExtraDatas \cup {"error_code" :> PyStr("EXTRA")}
Resources == {PyStr("Product")}
ResourceIds == {PyNone, PyInt(42), PyInt(0), PyStr("")}
CustomMessages == {PyNone, PyStr("No such product")}
ErrorLists == {PyList(<<>>), PyList(<<"field required">>)}
ItemLists == {PyList(<<>>), PyList(<<"item">>), PyList(<<"c", "a", "b", "a", "d">>)}

Called(op, args) == [called |-> TRUE, op |-> op, args |-> args]

Call_success ==
    \E data \in Datas, message \in Messages, status_code \in StatusCodes,
       metadata \in Metadatas :
        /\ call = NoCall
        /\ call' = Called("ResponseBuilder.success",
                          [data |-> data, message |-> message,
                           status_code |-> status_code, metadata |-> metadata])
        /\ result' = Return(ResponseBuilder_success(data, message, status_code, metadata))
        /\ UNCHANGED <<pgvars, appvars, uservars, productvars>>

Call_created ==
    \E data \in Datas, message \in Messages :
        /\ call = NoCall
        /\ call' = Called("ResponseBuilder.created",
                          [data |-> data, message |-> message])
        /\ result' = Return(ResponseBuilder_created(data, message))
        /\ UNCHANGED <<pgvars, appvars, uservars, productvars>>

Call_no_content ==
    /\ call = NoCall
    /\ call' = Called("ResponseBuilder.no_content", EmptyDict)
    /\ result' = Return(ResponseBuilder_no_content)
    /\ UNCHANGED <<pgvars, appvars, uservars, productvars>>

Call_error ==
    \E message \in Messages, error_code \in ErrorCodes, status_code \in StatusCodes,
       extra_data \in ExtraDatas :
        /\ call = NoCall
        /\ call' = Called("ResponseBuilder.error",
                          [message |-> message, error_code |-> error_code,
                           status_code |-> status_code, extra_data |-> extra_data])
        /\ result' = Return(ResponseBuilder_error(message, error_code, status_code,
                                                  extra_data))
        /\ UNCHANGED <<pgvars, appvars, uservars, productvars>>

Call_build ==
    \E items \in ItemLists, total \in 0..MaxTotal, skip \in 0..MaxSkip,
       limit \in 0..MaxLimit, message \in Messages, metadata \in BuildMetadatas :
        /\ call = NoCall
        /\ call' = Called("PaginationBuilder.build",
                          [items |-> items, total |-> total, skip |-> skip,
                           limit |-> limit, message |-> message,
                           metadata |-> metadata])
        /\ result' = PaginationBuilder_build(items, total, skip, limit, message,
                                             metadata)
        /\ UNCHANGED <<pgvars, appvars, uservars, productvars>>

Call_from_params ==
    \E items \in ItemLists, total \in 0..MaxTotal, skip \in 0..MaxSkip,
       limit \in 0..MaxLimit, message \in Messages, metadata \in BuildMetadatas :
        /\ call = NoCall
        /\ call' = Called("PaginationBuilder.from_params",
                          [items |-> items, total |-> total,
                           pagination_params |-> [skip |-> skip, limit |-> limit],
                           skip |-> skip, limit |-> limit, message |-> message,
                           metadata |-> metadata])
        /\ result' = PaginationBuilder_from_params(
                          items, total, [skip |-> skip, limit |-> limit], message,
                          metadata)
        /\ UNCHANGED <<pgvars, appvars, uservars, productvars>>

Call_not_found ==
    \E resource \in Resources, resource_id \in ResourceIds,
       custom_message \in CustomMessages :
        /\ call = NoCall
        /\ call' = Called("ExceptionBuilder.not_found",
                          [resource |-> resource, resource_id |-> resource_id,
                           custom_message |-> custom_message])
        /\ result' = Return(ExceptionBuilder_not_found(resource, resource_id,
                                                       custom_message))
        /\ UNCHANGED <<pgvars, appvars, uservars, productvars>>

Call_validation_error ==
    \E errors \in ErrorLists, message \in Messages :
        /\ call = NoCall
        /\ call' = Called("ExceptionBuilder.validation_error",
                          [errors |-> errors, message |-> message])
        /\ result' = Return(ExceptionBuilder_validation_error(errors, message))
        /\ UNCHANGED <<pgvars, appvars, uservars, productvars>>

Call_bad_request ==
    \E message \in Messages, error_code \in ErrorCodes, extra_data \in ExtraDatas :
        /\ call = NoCall
        /\ call' = Called("ExceptionBuilder.bad_request",
                          [message |-> message, error_code |-> error_code,
                           extra_data |-> extra_data])
        /\ result' = Return(ExceptionBuilder_bad_request(message, error_code,
                                                         extra_data))
        /\ UNCHANGED <<pgvars, appvars, uservars, productvars>>

Call_conflict ==
    \E message \in Messages, error_code \in ErrorCodes, extra_data \in ExtraDatas :
        /\ call = NoCall
        /\ call' = Called("ExceptionBuilder.conflict",
                          [message |-> message, error_code |-> error_code,
                           extra_data |-> extra_data])
        /\ result' = Return(ExceptionBuilder_conflict(message, error_code, extra_data))
        /\ UNCHANGED <<pgvars, appvars, uservars, productvars>>

Call_route_not_found ==
    \E mp \in Requests :
        /\ call = NoCall
        /\ call' = Called("ExceptionBuilder.route_not_found",
                          [path |-> PyStr(mp[2]), method |-> PyStr(mp[1])])
        /\ result' = Return(ExceptionBuilder_route_not_found(PyStr(mp[2]),
                                                             PyStr(mp[1])))
        /\ UNCHANGED <<pgvars, appvars, uservars, productvars>>

Call_internal_error ==
    \E message \in Messages, error_code \in ErrorCodes :
        /\ call = NoCall
        /\ call' = Called("ExceptionBuilder.internal_error",
                          [message |-> message, error_code |-> error_code])
        /\ result' = Return(ExceptionBuilder_internal_error(message, error_code))
        /\ UNCHANGED <<pgvars, appvars, uservars, productvars>>

Call_unauthorized ==
    \E message \in Messages, error_code \in ErrorCodes :
        /\ call = NoCall
        /\ call' = Called("ExceptionBuilder.unauthorized",
                          [message |-> message, error_code |-> error_code])
        /\ result' = Return(ExceptionBuilder_unauthorized(message, error_code))
        /\ UNCHANGED <<pgvars, appvars, uservars, productvars>>

Call_forbidden ==
    \E message \in Messages, error_code \in ErrorCodes :
        /\ call = NoCall
        /\ call' = Called("ExceptionBuilder.forbidden",
                          [message |-> message, error_code |-> error_code])
        /\ result' = Return(ExceptionBuilder_forbidden(message, error_code))
        /\ UNCHANGED <<pgvars, appvars, uservars, productvars>>

\* what the layer below ErrorHandlerMiddleware hands to dispatch: a response
\* of a handler, or an exception
HandlerResponses ==
    {ResponseBuilder_success(PyNone, PyStr("Done"), s, PyNone) : s \in StatusCodes}
    \cup {ResponseBuilder_created(PyNone, PyStr("Created")),
          ResponseBuilder_no_content,
          ExceptionBuilder_not_found(PyStr("Product"), PyInt(99), PyNone),
          health_check}
DispatchedExceptions ==
    RaisedExceptions \cup {HTTPException(418, PyStr("I'm a teapot")),
                           HTTPException(405, PyStr("Method Not Allowed"))}

\* ErrorHandlerMiddleware.dispatch on its own, call_next being any layer
Call_dispatch ==
    \E mp \in Requests,
       below \in {Return(v) : v \in HandlerResponses}
                 \cup {Raise(e) : e \in DispatchedExceptions} :
        LET req == [method |-> PyStr(mp[1]), path |-> PyStr(mp[2])]
        IN  /\ call = NoCall
            /\ call' = Called("ErrorHandlerMiddleware.dispatch",
                              [request |-> req, below |-> below])
            /\ result' = ErrorHandler_after_call_next(req, below).outcome
            /\ UNCHANGED <<pgvars, appvars, uservars, productvars>>

(***************************************************************************)
(* ResponseBuilder.error called with positional and keyword arguments      *)
(***************************************************************************)
TypeError(text) == [cls |-> "TypeError", text |-> text]

\* the named parameters of error(message, error_code=None, status_code=400,
\* **extra_data), in order
ErrorParams == <<"message", "error_code", "status_code">>

\* the call ResponseBuilder.error(*args, **kwargs) as Python binds it: a
\* keyword that names a parameter is that parameter's argument, twice given
\* it is a TypeError, and only the other keywords make up extra_data.  The
\* calls of the model pass no status_code.
ResponseBuilder_error_call(args, kwargs) ==
    LET positional == {ErrorParams[i] : i \in 1..Len(args)}
        given(name) == name \in positional \cup DOMAIN kwargs
        bound(i, default) ==
            IF i <= Len(args) THEN args[i]
            ELSE IF ErrorParams[i] \in DOMAIN kwargs THEN kwargs[ErrorParams[i]]
            ELSE default
        extra_data == [k \in DOMAIN kwargs \ {"message", "error_code", "status_code"}
                          |-> kwargs[k]]
    IN  IF positional \cap DOMAIN kwargs /= {}
        THEN Raise(TypeError("error() got multiple values for argument"))
        ELSE IF ~given("message")
        THEN Raise(TypeError("error() missing 1 required positional argument"))
        ELSE Return(ResponseBuilder_error(bound(1, PyNone), bound(2, PyNone), 400,
                                          extra_data))

PositionalArgs == {<<>>, <<PyStr("Done")>>, <<PyStr("Done"), PyStr("CUSTOM")>>}
KeywordArgs ==
    {EmptyDict, "field" :> PyStr("name"), "success" :> PyBool(TRUE),
     "message" :> PyStr("Other"), "error_code" :> PyStr("EXTRA"),
     ("success" :> PyStr("yes")) @@ ("error_code" :> PyStr("EXTRA"))}

Call_error_call ==
    \E args \in PositionalArgs, kwargs \in KeywordArgs :
        /\ call = NoCall
        /\ call' = Called("ResponseBuilder.error(*args, **kwargs)",
                          [args |-> args, kwargs |-> kwargs])
        /\ result' = ResponseBuilder_error_call(args, kwargs)
        /\ UNCHANGED <<pgvars, appvars, uservars, productvars>>

NextCalls ==
    \/ Call_success
    \/ Call_created
    \/ Call_no_content
    \/ Call_error
    \/ Call_build
    \/ Call_from_params
    \/ Call_not_found
    \/ Call_validation_error
    \/ Call_bad_request
    \/ Call_conflict
    \/ Call_route_not_found
    \/ Call_internal_error
    \/ Call_unauthorized
    \/ Call_forbidden
    \/ Call_dispatch
    \/ Call_error_call

SpecCalls == Init /\ [][NextCalls]_vars

(***************************************************************************)
(* Properties of the builders                                              *)
(***************************************************************************)
CallOf(op) == call.called /\ call.op = op

\* C12 as stated: ResponseBuilder.success yields success=true and the given
\* message; the data key is present exactly when data is not None, and the
\* metadata key is present exactly when metadata is not None.
SuccessKeysWhenSupplied ==
    CallOf("ResponseBuilder.success") =>
        LET body == Content(result.value)
            a == call.args
        IN  /\ body["success"] = PyBool(TRUE)
            /\ body["message"] = a.message
            /\ ("data" \in DOMAIN body) = (a.data /= PyNone)
            /\ ("metadata" \in DOMAIN body) = (a.metadata /= PyNone)

\* C12: ResponseBuilder.success yields success=true and the given message;
\* the data key is present, with the given value, exactly when data is not
\* None (0 and [] included); the metadata key is present, with the given
\* value, exactly when metadata is a non-empty dict: None and {} are both
\* omitted.
SuccessKeysWhenNonEmpty ==
    CallOf("ResponseBuilder.success") =>
        LET body == Content(result.value)
            a == call.args
            non_empty == IF a.metadata = PyNone THEN FALSE
                         ELSE DOMAIN a.metadata.v /= {}
        IN  /\ result.value.status_code = a.status_code
            /\ body["success"] = PyBool(TRUE)
            /\ body["message"] = a.message
            /\ ("data" \in DOMAIN body) = (a.data /= PyNone)
            /\ ("data" \in DOMAIN body) => body["data"] = a.data
            /\ ("metadata" \in DOMAIN body) = non_empty
            /\ ("metadata" \in DOMAIN body) => body["metadata"] = a.metadata
            /\ DOMAIN body \subseteq {"success", "message", "data", "metadata"}

\* success(data=0, metadata={}) keeps data and drops metadata
SuccessFalsyDataEmptyMetadata ==
    /\ CallOf("ResponseBuilder.success")
    /\ call.args.data = PyInt(0)
    /\ call.args.metadata = PyDict(EmptyDict)
    /\ DOMAIN Content(result.value) = {"success", "message", "data"}
    /\ Content(result.value)["data"] = PyInt(0)

ExceptionBuilderOps ==
    {"ExceptionBuilder.not_found", "ExceptionBuilder.validation_error",
     "ExceptionBuilder.bad_request", "ExceptionBuilder.conflict",
     "ExceptionBuilder.route_not_found", "ExceptionBuilder.internal_error",
     "ExceptionBuilder.unauthorized", "ExceptionBuilder.forbidden"}

\* C13: the body of every ResponseBuilder.error call and of every
\* ExceptionBuilder call, whatever the message, error code and extra keyword
\* fields, has no data key.
ErrorBodyHasNoData ==
    (call.called /\ call.op \in ExceptionBuilderOps \cup {"ResponseBuilder.error"}) =>
        "data" \notin DOMAIN Content(result.value)

\* C14: no envelope of ResponseBuilder, PaginationBuilder or ExceptionBuilder,
\* whatever the arguments and extra keyword fields, has success=true together
\* with an error_code key.
SuccessTrueHasNoErrorCode ==
    (/\ call.called
     /\ call.op /= "ErrorHandlerMiddleware.dispatch"
     /\ call.op /= "ResponseBuilder.no_content"
     /\ result.kind = "return") =>
        LET body == Content(result.value)
        IN  ~(body["success"] = PyBool(TRUE) /\ "error_code" \in DOMAIN body)

\* the status and the default error_code of the rows of the operations table
TableStatus(op) ==
    CASE op = "ExceptionBuilder.not_found" -> 404
      [] op = "ExceptionBuilder.validation_error" -> 422
      [] op = "ExceptionBuilder.bad_request" -> 400
      [] op = "ExceptionBuilder.conflict" -> 409
      [] op = "ExceptionBuilder.unauthorized" -> 401
      [] op = "ExceptionBuilder.forbidden" -> 403
      [] op = "ExceptionBuilder.route_not_found" -> 404
      [] op = "ExceptionBuilder.internal_error" -> 500
TableCode(op) ==
    CASE op = "ExceptionBuilder.not_found" -> PyStr("NOT_FOUND")
      [] op = "ExceptionBuilder.validation_error" -> PyStr("VALIDATION_ERROR")
      [] op = "ExceptionBuilder.bad_request" -> PyStr("BAD_REQUEST")
      [] op = "ExceptionBuilder.conflict" -> PyStr("CONFLICT")
      [] op = "ExceptionBuilder.unauthorized" -> PyStr("UNAUTHORIZED")
      [] op = "ExceptionBuilder.forbidden" -> PyStr("FORBIDDEN")
      [] op = "ExceptionBuilder.route_not_found" -> PyStr("ROUTE_NOT_FOUND")
      [] op = "ExceptionBuilder.internal_error" -> PyStr("INTERNAL_ERROR")

NotFoundMessage ==
    CallOf("ExceptionBuilder.not_found") =>
        LET a == call.args
            body == Content(result.value)
        IN  /\ result.value.status_code = 404
            /\ body["error_code"] = PyStr("NOT_FOUND")
            /\ body["message"] =
                   IF a.custom_message /= PyNone THEN a.custom_message
                   ELSE IF a.resource_id /= PyNone
                        THEN PyStr(str(a.resource) \o " with id '"
                                   \o str(a.resource_id) \o "' not found")
                        ELSE PyStr(str(a.resource) \o " not found")

\* the status codes the operations table and the Response Builder name
StandardStatuses == {200, 201, 204, 400, 401, 403, 404, 409, 422, 500}

\* C17 as stated: every response of a builder and every response of
\* ErrorHandlerMiddleware.dispatch, for any handler response and any raised
\* exception, has a status in {200, 201, 204, 400, 401, 403, 404, 409, 422,
\* 500}.
EveryStatusStandard ==
    (call.called /\ result.kind = "return") =>
        result.value.status_code \in StandardStatuses

\* C17: created, no_content, build and the ExceptionBuilder operations answer
\* with a status in {200, 201, 204, 400, 401, 403, 404, 409, 422, 500};
\* ResponseBuilder.success and ResponseBuilder.error answer with the
\* status_code the caller passes, whatever it is; dispatch hands a handler's
\* response that is not a 404 on with the handler's status, and the responses
\* it builds itself have status 404, 422 or 500.
StatusesEmitted ==
    (call.called /\ result.kind = "return") =>
        LET status_code == result.value.status_code
            a == call.args
        IN  CASE call.op \in {"ResponseBuilder.success", "ResponseBuilder.error"} ->
                    status_code = a.status_code
              [] call.op = "ErrorHandlerMiddleware.dispatch" ->
                    IF a.below.kind = "return" /\ a.below.value.status_code /= 404
                    THEN result = a.below
                    ELSE status_code \in {404, 422, 500}
              [] OTHER -> status_code \in StandardStatuses

\* success(status_code=202) answers 202
SuccessWithCallersStatus ==
    /\ CallOf("ResponseBuilder.success")
    /\ call.args.status_code = 202
    /\ result.kind = "return"
    /\ result.value.status_code = 202

\* C18: ResponseBuilder.no_content answers with status 204 and an empty
\* body: no JSON document, not the literal null.
NoContentEmptyBody ==
    CallOf("ResponseBuilder.no_content") =>
        /\ result.value.status_code = 204
        /\ "json" \notin DOMAIN result.value.body

(***************************************************************************)
(* Properties of RequestLoggingMiddleware                                  *)
(***************************************************************************)
\* the positions in the log of request r of the lines of the given events
Lines(r, events) == {i \in DOMAIN log[r] : log[r][i].event \in events}
\* the correlation ids request r has written or sent: in its log lines and
\* in the X-Request-ID header of its response
IdsEmitted(r) ==
    {log[r][i].id : i \in {j \in DOMAIN log[r] : "id" \in DOMAIN log[r][j]}}
    \cup (IF outcome[r].kind = "return"
             /\ "X-Request-ID" \in DOMAIN outcome[r].value.headers
          THEN {outcome[r].value.headers["X-Request-ID"]} ELSE {})

\* C19: in every reachable state, whatever the interleaving of the requests:
\* a request has at most one 'Request started' line, and has one exactly
\* when it has an id; every id in its start line, its completed or failed
\* line and its X-Request-ID header is its own id; it emits the id of no
\* other request; and two requests that have ids have different ids.
CorrelationIdOwned ==
    \A r \in Reqs :
        /\ Cardinality(Lines(r, {"Request started"})) =
               IF request_id[r] = PyNone THEN 0 ELSE 1
        /\ IdsEmitted(r) \subseteq {request_id[r]} \ {PyNone}
        /\ \A i \in Lines(r, {"Request started", "Request completed",
                              "Request failed"}) : "id" \in DOMAIN log[r][i]
        /\ \A q \in Reqs \ {r} :
               /\ request_id[q] /= PyNone => request_id[q] \notin IdsEmitted(r)
               /\ (request_id[r] /= PyNone /\ request_id[q] /= PyNone) =>
                      request_id[r] /= request_id[q]

\* one request has left with its id in its completed line and its header
\* while another, which has its own id, is still being processed
TwoRequestsTwoIds ==
    \E r, q \in Reqs :
        /\ r /= q
        /\ rl[r].called /\ rl[r].result.kind = "return"
        /\ rl[r].result.value.headers["X-Request-ID"] = request_id[r]
        /\ \E i \in Lines(r, {"Request completed"}) : log[r][i].id = request_id[r]
        /\ pc[q] \in {"inbound", "outbound"}
        /\ request_id[q] /= PyNone
        /\ \E i \in Lines(q, {"Request started"}) : log[q][i].id = request_id[q]
        /\ request_id[q] /= request_id[r]

\* C20: a request that has entered RequestLoggingMiddleware has its one
\* 'Request started' line; until call_next is over it has no terminal line;
\* afterwards it has exactly one, after the start line: 'Request completed'
\* with the status of the response if the next layer returned, in which case
\* the response leaves with the two headers stamped, or 'Request failed'
\* with the text of the exception if it raised, in which case the same
\* exception is raised again and nothing is stamped.
StartedThenOneTerminalLine ==
    \A r \in Reqs :
        LET started == Lines(r, {"Request started"})
            terminal == Lines(r, {"Request completed", "Request failed"})
            entered == \E i \in DOMAIN history[r] :
                           history[r][i] = <<"enter", "RequestLoggingMiddleware">>
        IN  /\ entered <=> Cardinality(started) = 1
            /\ ~entered => started = {}
            /\ ~rl[r].called => terminal = {}
            /\ rl[r].called =>
                   /\ entered
                   /\ Cardinality(terminal) = 1
                   /\ \A i \in started, j \in terminal :
                          /\ i < j
                          /\ IF rl[r].below.kind = "return"
                             THEN /\ log[r][j].event = "Request completed"
                                  /\ log[r][j].status = rl[r].below.value.status_code
                                  /\ rl[r].result.kind = "return"
                                  /\ rl[r].result.value.status_code =
                                         rl[r].below.value.status_code
                                  /\ rl[r].result.value.body = rl[r].below.value.body
                                  /\ {"X-Request-ID", "X-Process-Time"} \subseteq
                                         DOMAIN rl[r].result.value.headers
                             ELSE /\ log[r][j].event = "Request failed"
                                  /\ log[r][j].error = exc_str(rl[r].below.exc)
                                  /\ rl[r].result = rl[r].below

\* one request was logged as completed with its status and another as
\* failed with the text of its exception, which went on unchanged
CompletedAndFailedLogged ==
    \E r, q \in Reqs :
        /\ rl[r].called /\ rl[r].below.kind = "return"
        /\ \E i \in Lines(r, {"Request completed"}) : log[r][i].status = 200
        /\ rl[q].called /\ rl[q].below = Raise(Exception("boom"))
        /\ rl[q].result = Raise(Exception("boom"))
        /\ \E i \in Lines(q, {"Request failed"}) : log[q][i].error = "boom"

(***************************************************************************)
(* Properties of ErrorHandlerMiddleware.dispatch                           *)
(***************************************************************************)
\* the outcome of the layer below is a response that is not a 404
PassedThrough(r) ==
    eh[r].below.kind = "return" /\ eh[r].below.value.status_code /= 404

GenericHttp404(o) ==
    /\ o.kind = "raise"
    /\ isinstance(o.exc, "StarletteHTTPException")
    /\ ~isinstance(o.exc, "BaseAPIException")
    /\ o.exc.status_code = 404

\* C22: when the layer below raises a generic HTTP exception of status 404,
\* dispatch returns the envelope of not_found("Resource"): status 404,
\* error_code NOT_FOUND and not ROUTE_NOT_FOUND, resource "Resource", and as
\* message the detail of the exception, or "Resource not found" when the
\* detail is empty.
Http404RewrappedAsNotFound ==
    (CallOf("ErrorHandlerMiddleware.dispatch") /\ GenericHttp404(call.args.below)) =>
        /\ result.kind = "return"
        /\ result.value.status_code = 404
        /\ LET body == Content(result.value)
               detail == call.args.below.exc.detail
           IN  /\ body["success"] = PyBool(FALSE)
               /\ body["error_code"] = PyStr("NOT_FOUND")
               /\ body["error_code"] /= PyStr("ROUTE_NOT_FOUND")
               /\ body["resource"] = PyStr("Resource")
               /\ body["message"] = IF str(detail) = "" THEN PyStr("Resource not found")
                                    ELSE PyStr(str(detail))
               /\ {"path", "method"} \cap DOMAIN body = {}

\* HTTPException(404, detail="") is answered with "Resource not found"
Http404EmptyDetailAnswered ==
    /\ CallOf("ErrorHandlerMiddleware.dispatch")
    /\ call.args.below = Raise(HTTPException(404, PyStr("")))
    /\ result.kind = "return"
    /\ Content(result.value)["message"] = PyStr("Resource not found")
    /\ Content(result.value)["error_code"] = PyStr("NOT_FOUND")

\* C23 as stated: error puts every extra pair at the top level of the body,
\* and for each of the base keys success, message and error_code a pair
\* passed with that key, next to the positional message, replaces the base
\* value in the body.
ExtrasOverwriteBaseKeys ==
    (CallOf("ResponseBuilder.error(*args, **kwargs)") /\ Len(call.args.args) >= 1) =>
        \A k \in DOMAIN call.args.kwargs :
            /\ result.kind = "return"
            /\ k \in DOMAIN Content(result.value)
            /\ Content(result.value)[k] = call.args.kwargs[k]

\* C23: message and error_code are parameters of error, so a keyword of
\* that name is the base value itself and, given next to the same
\* positional argument, a TypeError; every other keyword is an extra pair
\* and is put at the top level of the body, where a pair named success
\* replaces the base value false.
ExtrasOverwriteSuccessOnly ==
    CallOf("ResponseBuilder.error(*args, **kwargs)") =>
        LET args == call.args.args
            kwargs == call.args.kwargs
            positional == {ErrorParams[i] : i \in 1..Len(args)}
            message == IF Len(args) >= 1 THEN args[1] ELSE kwargs["message"]
            error_code == IF Len(args) >= 2 THEN args[2]
                          ELSE IF "error_code" \in DOMAIN kwargs
                               THEN kwargs["error_code"] ELSE PyNone
            extras == DOMAIN kwargs \ {"message", "error_code"}
        IN  IF positional \cap DOMAIN kwargs /= {}
               \/ "message" \notin positional \cup DOMAIN kwargs
            THEN result.kind = "raise" /\ result.exc.cls = "TypeError"
            ELSE /\ result.kind = "return"
                 /\ LET body == Content(result.value)
                    IN  /\ body["message"] = message
                        /\ body["success"] = IF "success" \in extras
                                             THEN kwargs["success"] ELSE PyBool(FALSE)
                        /\ IF Truthy(error_code)
                           THEN body["error_code"] = error_code
                           ELSE "error_code" \notin DOMAIN body
                        /\ \A k \in extras : body[k] = kwargs[k]
                        /\ DOMAIN body \subseteq
                               {"success", "message", "error_code"} \cup extras

\* error("Done", "CUSTOM", success=True): the extra pair has replaced success
ExtraSuccessOverwrites ==
    /\ CallOf("ResponseBuilder.error(*args, **kwargs)")
    /\ call.args.args = <<PyStr("Done"), PyStr("CUSTOM")>>
    /\ call.args.kwargs = ("success" :> PyBool(TRUE))
    /\ result.kind = "return"
    /\ Content(result.value) = ("success" :> PyBool(TRUE))
                               @@ ("message" :> PyStr("Done"))
                               @@ ("error_code" :> PyStr("CUSTOM"))

\* C24: for any items, total, skip and limit, more items than limit and
\* skip >= total included, build and from_params return a body whose items
\* field is the list they were given, same elements in the same order, and
\* whose pagination block is the one total, skip and limit determine:
\* page_size = limit, total = total, page and total_pages by the page
\* formulas (1 and 0 when limit is 0), has_next and has_prev from those.
BuildKeepsItems ==
    (call.called /\ call.op \in {"PaginationBuilder.build",
                                 "PaginationBuilder.from_params"}) =>
        /\ result.kind = "return"
        /\ result.value.status_code = 200
        /\ LET body == Content(result.value)
               a == call.args
               p == body["pagination"].v
           IN  /\ body["items"] = a.items
               /\ body["success"] = PyBool(TRUE)
               /\ body["message"] = a.message
               /\ DOMAIN p = {"page", "page_size", "total_pages", "has_next",
                              "has_prev", "total"}
               /\ p["page_size"] = PyInt(a.limit)
               /\ p["total"] = PyInt(a.total)
               /\ IF a.limit = 0
                  THEN p["page"] = PyInt(1) /\ p["total_pages"] = PyInt(0)
                  ELSE /\ p["page"] = PyInt((a.skip \div a.limit) + 1)
                       /\ p["total_pages"] = PyInt((a.total + a.limit - 1) \div a.limit)
               /\ p["has_next"] = PyBool(p["page"].v < p["total_pages"].v)
               /\ p["has_prev"] = PyBool(p["page"].v > 1)

\* from_params with five items, limit 2 and skip past the total returns the
\* five items as given
FromParamsMoreItemsThanLimit ==
    /\ CallOf("PaginationBuilder.from_params")
    /\ call.args.items = PyList(<<"c", "a", "b", "a", "d">>)
    /\ call.args.limit = 2 /\ call.args.skip = 4 /\ call.args.total = 3
    /\ result.kind = "return"
    /\ Content(result.value)["items"] = PyList(<<"c", "a", "b", "a", "d">>)
    /\ Content(result.value)["pagination"].v["page"] = PyInt(3)

\* C25: when the layer below returns a response whose status is not 404,
\* dispatch returns that response: same status, same body, same headers.
Non404PassedThroughUnchanged ==
    \A r \in Reqs :
        (eh[r].called /\ PassedThrough(r)) =>
            /\ eh[r].result.kind = "return"
            /\ eh[r].result.value.status_code = eh[r].below.value.status_code
            /\ eh[r].result.value.body = eh[r].below.value.body
            /\ eh[r].result.value.headers = eh[r].below.value.headers
            /\ eh[r].built = 0

\* a 200 response that carries the headers of the logging layer has passed
\* through dispatch and left the application with them
StampedResponsePassedThrough ==
    \E r \in Reqs :
        /\ Done(r)
        /\ eh[r].called
        /\ eh[r].below.kind = "return"
        /\ eh[r].below.value.status_code = 200
        /\ DOMAIN eh[r].below.value.headers = {"X-Request-ID", "X-Process-Time"}
        /\ outcome[r] = eh[r].below

\* C27: for total >= 0, skip >= 0 and limit >= 1, has_next is true exactly
\* when items remain after the page [skip, skip+limit), that is when
\* skip + limit < total, also when skip is no multiple of limit.
HasNextIffItemsRemain ==
    (pg_args.called /\ pg_args.limit >= 1) =>
        /\ pg_info.kind = "return"
        /\ pg_info.value.has_next = (pg_args.skip + pg_args.limit < pg_args.total)


\* the last request was sent by a user who passed require_admin
ActingAdmin ==
    /\ user_op.called
    /\ require_admin(user_op.before, user_op.token).kind = "return"

\* the last request asked to deactivate or delete the admin who sent it
SelfTargeting ==
    /\ ActingAdmin
    /\ user_op.user_id = user_op.token.user_id
    /\ \/ user_op.op = "deactivate_user"
       \/ user_op.op = "delete_user"
       \/ /\ user_op.op = "update_user"
          /\ user_op.user_data.data.is_active = PyBool(FALSE)

AnsweredHttp(status_code) ==
    /\ user_op.answer.kind = "raise"
    /\ user_op.answer.exc.cls = "HTTPException"
    /\ user_op.answer.exc.status_code = status_code

\* C26: update_user with is_active=false, deactivate_user and delete_user,
\* sent by an admin with their own id as the target, all raise the 400 error
\* and leave the users table as it was
AdminCannotDisableSelf ==
    SelfTargeting => AnsweredHttp(400) /\ users = user_op.before

\* an admin with a second user in the table was refused update_user with
\* is_active=false and role=admin on their own id
AdminRefusedOwnUpdate ==
    /\ SelfTargeting
    /\ user_op.op = "update_user"
    /\ "role" \in user_op.user_data.fields_set
    /\ Cardinality(DOMAIN users) = 2
    /\ AnsweredHttp(400)
    /\ Truthy(users[user_op.user_id].is_active)

\* the last request was a registration that stored a new row
Registered ==
    /\ user_op.called
    /\ user_op.op = "register_user"
    /\ DOMAIN users /= DOMAIN user_op.before

\* C29: a registration makes the new user ADMIN and verified exactly when the
\* table it met was empty, and USER and unverified otherwise; once the
\* sequence has given an id the table is never empty, so the only user made
\* ADMIN by registration is the one with the first id
FirstUserOnlyAdmin ==
    /\ Registered =>
           LET new_user == user_op.answer.value
               was_empty == DOMAIN user_op.before = {}
           IN  /\ new_user.role = (IF was_empty THEN UserRole_ADMIN ELSE UserRole_USER)
               /\ new_user.is_verified = PyBool(was_empty)
               /\ new_user.role = UserRole_ADMIN => new_user.id = PyInt(1)
               /\ users[new_user.id.v] = new_user
    /\ next_user_id > 1 => DOMAIN users /= {}

\* a registration after a deletion: the table held one user, the new user
\* got the third id and the USER role
RegisteredAfterDelete ==
    /\ Registered
    /\ Cardinality(DOMAIN user_op.before) = 1
    /\ user_op.answer.value.id = PyInt(3)
    /\ user_op.answer.value.role = UserRole_USER
    /\ user_op.answer.value.is_verified = PyBool(FALSE)

\* the id of the user who sent the last request, 0 when the token is invalid
Caller == IF user_op.token.valid THEN user_op.token.user_id ELSE 0

\* C30: update_my_profile leaves role, is_active and is_verified of every row
\* as they were, whatever the body sets, and leaves every row other than the
\* caller's as it was
ProfileUpdateKeepsPrivileges ==
    (user_op.called /\ user_op.op = "update_my_profile") =>
        /\ DOMAIN users = DOMAIN user_op.before
        /\ \A id \in DOMAIN users :
               /\ users[id].role = user_op.before[id].role
               /\ users[id].is_active = user_op.before[id].is_active
               /\ users[id].is_verified = user_op.before[id].is_verified
               /\ id /= Caller => users[id] = user_op.before[id]

\* a USER sent role=admin, is_active=false, is_verified=true and a first
\* name: the first name was stored, and the other user is in the table
ProfileUpdatedWithRoleInBody ==
    /\ user_op.called
    /\ user_op.op = "update_my_profile"
    /\ user_op.answer.kind = "return"
    /\ user_op.user_data.data.role = UserRole_ADMIN
    /\ user_op.user_data.data.is_active = PyBool(FALSE)
    /\ user_op.before[Caller].role = UserRole_USER
    /\ ~Truthy(user_op.before[Caller].is_verified)
    /\ users[Caller].first_name = PyStr("New")
    /\ users /= user_op.before
    /\ Cardinality(DOMAIN users) = 2


\* C28: after any sequence of create, update, delete and update_stock,
\* _next_id is greater than every key of _db, every stored dict's "id" is
\* its key, and the id a create returns was used neither by demo data nor by
\* an earlier create, deleted or not
ProductIdsNeverReused ==
    /\ \A key \in DOMAIN _db :
           /\ key < _next_id
           /\ _db[key]["id"] = PyInt(key)
    /\ \A id \in product_op.issued : id < _next_id
    /\ (product_op.called /\ product_op.op = "create") =>
           /\ product_op.returned.v["id"].v \notin product_op.earlier
           /\ product_op.returned.v["id"].v \in DOMAIN _db

\* a create after the deletion of the last demo product and of the product
\* of an earlier create: it returned the id after both
CreatedAfterDeletes ==
    /\ product_op.called
    /\ product_op.op = "create"
    /\ 9 \in product_op.earlier
    /\ 8 \notin DOMAIN _db
    /\ 9 \notin DOMAIN _db
    /\ product_op.returned.v["id"] = PyInt(10)

=============================================================================
